---- MODULE Spec2Model ----
(***************************************************************************)
(* A model of the AITextAssistant repository: result ranking, index        *)
(* rebuild and search, the online-search cache, suggestion triggering and  *)
(* the autocomplete request pipeline.  Each subsystem has its own          *)
(* variables, its own initial predicate and its own next-state relation;   *)
(* a subsystem's specification leaves the other subsystems' variables at   *)
(* their idle values.                                                      *)
(***************************************************************************)
EXTENDS Integers, Sequences, FiniteSets, TLC

(***************************************************************************)
(* Bounds of the model.                                                    *)
(***************************************************************************)
\* longest local / remote result list handed to the ranker
MaxResults == 2
\* number of distinct result ids
MaxId == 2
\* rebuilds started in one run of the application
MaxRebuilds == 2
\* documents in the folder of one rebuild
MaxDocs == 2
\* OnlineSearch.search calls per query between two clear_cache calls or restarts
MaxCalls == 2
\* longest result list one external fetch returns
MaxFetched == 1
\* KeystrokeListener.context_window_size: the deque's maxlen
ContextWindow == 2
\* characters typed between two triggers
MaxTyped == 11
\* suggestion requests issued by the keystroke listener
MaxRequests == 2
\* characters in the editor
MaxText == 11
\* largest num_suggestions of a get_suggestions call
MaxCount == 2
\* longest list LocalSearch.search returns to get_suggestions
MaxLocal == 2
\* longest list OnlineSearch.search returns to get_suggestions
MaxOnline == 1
\* longest list VectorStore.search returns to LocalSearch.search
MaxHits == 3
\* add_documents calls on the VectorStore objects of one run
MaxAdds == 2
\* longest title list wikipedia.search returns; largest max_results
MaxTitles == 3
\* longest context handed to _extract_query; largest context_window
MaxContext == 5
\* longest text handed to TextChunker.chunk_text
MaxChunked == 9
\* longest result list handed to get_context / get_best_context
MaxParts == 3
\* longest result list LocalSearch.search returns to get_alternatives;
\* largest num_alternatives
MaxSimilar == 2
\* longest list handed to SuggestionOverlay.show_suggestions
MaxShown == 3

VARIABLES
    \* ---- Ranker.rank_results (src/retrieval/ranker.py) ----
    rkLocal,    \* the local_results argument
    rkRemote,   \* the online_results argument (its dicts are mutated in place)
    rkRanked,   \* the returned list
    rkPc,       \* "input" before the call, "ranked" after it
    \* ---- VectorStore (src/embeddings/vector_store.py) ----
    index,      \* self.index: [exists |-> FALSE] is None, else the id-mapped entries
    documents,  \* self.documents
    diskIndex,  \* the <index_path>.index file
    diskDocs,   \* the <index_path>.docs file
    \* ---- index rebuild (src/app_controller.py, src/ui/main_window.py) ----
    thPc,       \* per DocumentIndexer thread: where it is in run / index_documents
    thChunks,   \* per thread: all_chunks
    thPrev,     \* per thread: the store's content when the rebuild started (history)
    thGen,      \* per thread: the number of its rebuild, 0 while it has none
    thOutcomes, \* per thread: what extracting each document of the folder did (history)
    thProgress, \* per thread: the percentages emitted by progress, in order (history)
    nRebuilds,  \* rebuilds started so far
    loadDocsBtn,   \* MainWindow.load_docs_btn.isEnabled()
    uiAutocomplete,\* MainWindow.autocomplete is not None
    srResult,   \* the list the last VectorStore.search returned, and a stamp that
                \* flips with every search
    \* ---- OnlineSearch (src/retrieval/online_search.py) ----
    cache_enabled, \* self.cache_enabled
    cache,      \* self.cache: per query, whether it is a key and the list stored
    cacheFile,  \* the file at self.cache_path
    osPc,       \* "ready", or inside _save_cache: "save_open", "save_dump"
    osRet,      \* the list the last search returned
    osCalls,    \* per query: search calls since the last clear_cache / start (history)
    osFetches,  \* per query: external fetches since then (history)
    osFirst,    \* per query: what the first of these calls did (history)
    svOld,      \* the mapping the file held when the last _save_cache began (history)
    svNew,      \* the mapping the last _save_cache was writing (history)
    osCrashed,  \* where the process was when it last crashed: "no", "in_save", "outside"
    osCleared,  \* whether the last call was a clear_cache that returned, and the
                \* keys the cache had when the last such call began (history)
    osLast,     \* the last search call: its query, what it did, and how its
                \* _save_cache ended: "none", "ok" or "failed" (history)
    \* ---- KeystrokeListener and its requests (src/src/keystroke_listener.py, src/src/ui.py) ----
    ksBuffer,   \* self.context_buffer
    ksElapsed,  \* ticks since self._last_trigger_time, counted up to the debounce time
    ksCount,    \* self._char_count_since_trigger
    ksAppended, \* characters appended since the last trigger (history)
    ksLastKey,  \* the key typed last (history)
    ksFired,    \* the facts of the last trigger (history)
    rqState,    \* per request thread: "none", "running", "done"
    nIssued,    \* requests issued so far: the id of the latest one
    ovShown,    \* the request whose suggestions the overlay shows, and the latest
                \* request at the moment they were shown
    \* ---- TextEditor and MainWindow._on_text_changed (src/ui/editor.py, src/ui/main_window.py) ----
    edLen,      \* len(toPlainText()), the cursor at the end
    edTimer,    \* self._debounce_timer: ticks left, -1 when not active
    edToggle,   \* suggestions_toggle.isChecked()
    edNew,      \* characters typed since the last suggestion request, counted up
                \* to the trigger threshold (history)
    edLastKey,  \* the key typed last (history)
    edElapsed,  \* ticks since the last suggestion request, counted up to the debounce time
    edFired,    \* the facts of the last suggestion request (history)
    edSince,    \* ticks since the last text change, counted up to the debounce time (history)
    edEmits,    \* emissions of text_changed_delayed since the last text change, -1 before the first change (history)
    edQuiet,    \* edSince at the most recent emission (history)
    \* ---- Autocomplete.get_suggestions (src/suggestion/autocomplete.py) ----
    online_search, \* self.online_search is not None
    sgPc,       \* "idle", the next stage of the call ("search", "generate",
                \* "template", "online", "return"), or "done"
    sgCount,    \* num_suggestions
    sgLocal,    \* local_results
    sgSuggestions, \* suggestions
    sgRet,      \* the list the call returned
    sgError,    \* the exception the call let through to its caller, or "none"
    sgCaught,   \* the handler that caught an exception in this call:
                \* "none", "inner" (AI stage) or "outer" (history)
    sgOrigins,  \* per entry of suggestions, the stage that appended it:
                \* "ai", "local" or "remote" (history)
    sgOnlineAt, \* len(suggestions) when online_search.search was invoked in
                \* this call, -1 while it was not (history)
    \* ---- LocalSearch.search (src/retrieval/local_search.py) ----
    lsHits,     \* results: what self.vector_store.search returns for the query
    lsPc,       \* "input" before the call, "returned" after it
    lsSearched, \* whether the call reached self.vector_store.search (history)
    lsRet,      \* the returned list
    \* ---- calls on a VectorStore object (src/embeddings/vector_store.py) ----
    vsLast,     \* the last call: its name, whether it returned normally (for
                \* load: returned True), and whether the object was as
                \* __init__ leaves it when the call began (history)
    vsAdded,    \* add_documents calls so far; numbers the batches
    vsTopK,     \* top_k of the last search
    vsResult,   \* the list the last search returned
    vsSaved,    \* the content of the store at the last save() that returned,
                \* valid while no later save() raised (history)
    vsPaired,   \* whether the two files on disk are as one and the same save()
                \* call wrote them (history)
    vsCrashed,  \* whether the process died inside save() since save() was last
                \* called (history)
    \* ---- OnlineSearch._search_wikipedia (src/retrieval/online_search.py) ----
    wkTitles,   \* per title of search_results, in order: what fetching it does
    wkMax,      \* self.max_results
    wkPc,       \* "input" before the call, "returned" after it
    wkSearched, \* whether wikipedia.search returned a title list (history)
    wkRet,      \* what the call did: whether it raised, and the list returned
    \* ---- ApplicationController.initialize and the dimensions (src/app_controller.py) ----
    emDim,      \* the dimension of the vectors the configured embedding model produces
    cfgDim,     \* config.vector_dimension
    fileDim,    \* the dimension of the persisted index, 0 when none is persisted
    auInit,     \* "no" before initialize, then what it returned: "ok" or "failed"
    idxDim,     \* the dimension of vector_store.index, 0 while there is none
    idxFilled,  \* whether the store holds documents
    auServed,   \* the last request: "none", "add_ok", "add_raised",
                \* "search_empty", "search_raised", "search_ok" (history)
    \* ---- Autocomplete._extract_query (src/suggestion/autocomplete.py) ----
    xqContext,  \* the context argument, a sequence of characters
    xqWindow,   \* self.context_window
    xqQuery,    \* the returned query
    xqPc,       \* "input" before the call, "done" after it
    \* ---- TextChunker.chunk_text (src/ingestion/chunker.py) ----
    ckText,     \* the text argument, a sequence of characters
    ckSize,     \* self.chunk_size
    ckOverlap,  \* self.overlap
    ckChunks,   \* the returned list of chunks
    ckPc,       \* "input" before the call, "done" after it
    \* ---- LocalSearch.get_context, Ranker.get_best_context (src/retrieval) ----
    gcTexts,    \* len(result['text']) of each result, in the order of the list
    gcMax,      \* the max_length argument, 0 for None
    gcParts,    \* context_parts: which result each part is from, and its length
    gcLength,   \* len(context) of the returned string
    gcPc,       \* "input" before the call, then the function called: "local", "ranker"
    \* ---- TextReplacer.get_alternatives (src/suggestion/text_replacer.py) ----
    trSelected, \* the selected_text argument, a sequence of characters
    trCount,    \* the num_alternatives argument
    trResults,  \* result.get('text', '') of each result local_search.search returns
    trRet,      \* the returned list
    trPc,       \* "input" before the call, "done" after it
    \* ---- SuggestionOverlay (src/src/suggestion_overlay.py) ----
    soSuggestions, \* self.suggestions, a sequence of strings
    soIndex,       \* self.current_index
    soVisible,     \* self.is_visible_flag
    soLast         \* the method called last and what it emitted (history)

rankVars == <<rkLocal, rkRemote, rkRanked, rkPc>>
storeVars == <<index, documents, diskIndex, diskDocs>>
buildVars == <<thPc, thChunks, thPrev, thGen, thOutcomes, thProgress, nRebuilds, loadDocsBtn,
               uiAutocomplete, srResult>>

cacheVars == <<cache_enabled, cache, cacheFile, osPc, osRet, osCalls, osFetches,
               osFirst, svOld, svNew, osCrashed, osCleared, osLast>>

listenVars == <<ksBuffer, ksElapsed, ksCount, ksAppended, ksLastKey, ksFired,
                rqState, nIssued, ovShown>>
editVars == <<edLen, edTimer, edToggle, edNew, edLastKey, edElapsed, edFired, edSince, edEmits, edQuiet>>

suggestVars == <<online_search, sgPc, sgCount, sgLocal, sgSuggestions, sgRet,
                 sgError, sgCaught, sgOrigins, sgOnlineAt>>

localVars == <<lsHits, lsPc, lsSearched, lsRet>>
callVars == <<vsLast, vsAdded, vsTopK, vsResult, vsSaved, vsPaired, vsCrashed>>
lookupVars == <<wkTitles, wkMax, wkPc, wkSearched, wkRet>>
startVars == <<emDim, cfgDim, fileDim, auInit, idxDim, idxFilled, auServed>>
queryVars == <<xqContext, xqWindow, xqQuery, xqPc>>
chunkVars == <<ckText, ckSize, ckOverlap, ckChunks, ckPc>>
contextVars == <<gcTexts, gcMax, gcParts, gcLength, gcPc>>
replaceVars == <<trSelected, trCount, trResults, trRet, trPc>>
overlayVars == <<soSuggestions, soIndex, soVisible, soLast>>

vars == <<rankVars, storeVars, buildVars, cacheVars, listenVars, editVars,
          suggestVars, localVars, callVars, lookupVars, startVars, queryVars,
          chunkVars, contextVars, replaceVars, overlayVars>>

(***************************************************************************)
(* Helpers on sequences.                                                   *)
(***************************************************************************)
Min(a, b) == IF a <= b THEN a ELSE b

SeqsUpTo(S, n) == UNION {[1..k -> S] : k \in 0..n}

\* Python's xs[:n] for n >= 0
Take(xs, n) == SubSeq(xs, 1, Min(n, Len(xs)))

\* Python's  x in xs
InSeq(x, xs) == \E i \in 1..Len(xs) : xs[i] = x

NoDuplicates(xs) == \A i, j \in 1..Len(xs) : i # j => xs[i] # xs[j]

(***************************************************************************)
(* Ranker (src/retrieval/ranker.py).                                       *)
(* A result is a dict; the model keeps its identifying text as id, its     *)
(* source tag, its similarity score (in tenths) and the is_fallback key    *)
(* (FALSE: key absent).                                                    *)
(***************************************************************************)
Scores == {0, 9}

LocalResults == [id : 1..MaxId, source : {"local"},
                 similarity_score : Scores, is_fallback : {FALSE}]

RemoteResults == [id : 1..MaxId, source : {"wikipedia"},
                  similarity_score : Scores, is_fallback : {FALSE}]

\* for result in online_results: result['is_fallback'] = True
MarkFallback(online_results) ==
    [i \in 1..Len(online_results) |->
        [online_results[i] EXCEPT !.is_fallback = TRUE]]

\* a variant of RankResults, to test the properties that depend on it: the merged list is ordered by score, best first
RankResultsByScore(local_results, online_results) ==
    LET hi(xs) == SelectSeq(xs, LAMBDA r : r.similarity_score > 0)
        lo(xs) == SelectSeq(xs, LAMBDA r : r.similarity_score <= 0)
        on == MarkFallback(online_results)
    IN  hi(local_results) \o hi(on) \o lo(local_results) \o lo(on)

\* ranked = []; ranked.extend(local_results); ranked.extend(online_results)
RankResults(local_results, online_results) ==
    local_results \o MarkFallback(online_results)

RankInit ==
    /\ rkLocal \in SeqsUpTo(LocalResults, MaxResults)
    /\ rkRemote \in SeqsUpTo(RemoteResults, MaxResults)
    /\ rkRanked = <<>>
    /\ rkPc = "input"

RankIdle ==
    /\ rkLocal = <<>>
    /\ rkRemote = <<>>
    /\ rkRanked = <<>>
    /\ rkPc = "input"

\* the variables of the other subsystems
RankFrame ==
    UNCHANGED <<storeVars, buildVars, cacheVars, listenVars, editVars, suggestVars, localVars, callVars, lookupVars, startVars, queryVars, chunkVars, contextVars, replaceVars, overlayVars>>

\* one call of Ranker.rank_results(rkLocal, rkRemote)
RankCall ==
    /\ rkPc = "input"
    /\ rkRanked' = RankResults(rkLocal, rkRemote)
    /\ rkRemote' = MarkFallback(rkRemote)
    /\ rkPc' = "ranked"
    /\ UNCHANGED rkLocal
    /\ RankFrame

\* the caller drops the merged list and prepares the next call
RankReturn ==
    /\ rkPc = "ranked"
    /\ rkPc' = "input"
    /\ rkRanked' = <<>>
    /\ UNCHANGED <<rkLocal, rkRemote>>
    /\ RankFrame

RankNext == RankCall \/ RankReturn

(***************************************************************************)
(* VectorStore (src/embeddings/vector_store.py).                           *)
(* self.index is None or a FAISS IndexIDMap: the model keeps its entries   *)
(* in insertion order, each with the id it was added under and the chunk   *)
(* whose embedding it holds.  A file is absent, readable ("ok", with its   *)
(* content) or truncated by an interrupted write ("corrupt").              *)
(***************************************************************************)
\* the DocumentIndexer thread objects that can exist at the same time
Threads == {1, 2}

\* a chunk of generation gen, cut from document doc of the folder
Chunk(gen, doc) == [gen |-> gen, doc |-> doc]

NoIndex == [exists |-> FALSE, entries |-> <<>>]
EmptyIndex == [exists |-> TRUE, entries |-> <<>>]
AbsentFile == [state |-> "absent", data |-> <<>>]
CorruptFile == [state |-> "corrupt", data |-> <<>>]
File(data) == [state |-> "ok", data |-> data]

\* the content of the in-memory store
Store == [index |-> index, documents |-> documents]

\* ids = np.arange(start_id, start_id + len(documents)); index.add_with_ids
IndexEntries(start_id, chunks) ==
    [i \in 1..Len(chunks) |-> [id |-> start_id + i - 1, chunk |-> chunks[i]]]

\* the store holding exactly the chunks of one generation
FullStore(chunks) ==
    [index |-> [exists |-> TRUE, entries |-> IndexEntries(0, chunks)],
     documents |-> chunks]

\* similarity of a chunk to the query (tenths): later documents score higher
Similarity(chunk) == chunk.doc

\* FAISS returns the k most similar entries, most similar first
RECURSIVE NearestEntries(_, _)
NearestEntries(entries, k) ==
    IF k = 0 \/ entries = <<>> THEN <<>>
    ELSE LET best == CHOOSE i \in 1..Len(entries) :
                        \A j \in 1..Len(entries) :
                            \/ Similarity(entries[i].chunk) > Similarity(entries[j].chunk)
                            \/ /\ Similarity(entries[i].chunk) = Similarity(entries[j].chunk)
                               /\ i <= j
             rest == [j \in 1..(Len(entries) - 1) |->
                        IF j < best THEN entries[j] ELSE entries[j + 1]]
         IN  <<entries[best]>> \o NearestEntries(rest, k - 1)

\* VectorStore.search on a store content st
VectorStoreSearch(st, top_k) ==
    IF ~st.index.exists \/ Len(st.documents) = 0 THEN <<>>
    ELSE LET found == NearestEntries(st.index.entries, Min(top_k, Len(st.documents)))
             valid == SelectSeq(found, LAMBDA e : e.id >= 0 /\ e.id < Len(st.documents))
         IN  [i \in 1..Len(valid) |-> st.documents[valid[i].id + 1]]

(***************************************************************************)
(* Index rebuild: ApplicationController.index_documents run by a           *)
(* DocumentIndexer thread (src/ui/main_window.py), started from the        *)
(* toolbar button or the File menu.  thPc values:                          *)
(*   idle, extract, embed, clear, create, add, extend, save_index,         *)
(*   save_docs: the next step of index_documents;                          *)
(*   ok, failed: index_documents returned, finished(success, ...) is       *)
(*   emitted and waits for MainWindow._on_indexing_finished.               *)
(***************************************************************************)
TopK == 5

InProgress(t) == thPc[t] \notin {"idle", "ok", "failed"}

NoResult == [stamp |-> 0, result |-> <<>>]

\* the variables of the other subsystems
IndexFrame ==
    UNCHANGED <<rankVars, cacheVars, listenVars, editVars, suggestVars, localVars, callVars, lookupVars, startVars, queryVars, chunkVars, contextVars, replaceVars, overlayVars>>

\* ApplicationController.initialize: load() the persisted index, else create_index()
IndexInit ==
    /\ \/ /\ diskIndex = AbsentFile
          /\ diskDocs = AbsentFile
          /\ index = EmptyIndex
          /\ documents = <<>>
       \/ /\ diskIndex = File(IndexEntries(0, <<Chunk(0, 1)>>))
          /\ diskDocs = File(<<Chunk(0, 1)>>)
          /\ index = [exists |-> TRUE, entries |-> IndexEntries(0, <<Chunk(0, 1)>>)]
          /\ documents = <<Chunk(0, 1)>>
    /\ thPc = [t \in Threads |-> "idle"]
    /\ thChunks = [t \in Threads |-> <<>>]
    /\ thPrev = [t \in Threads |-> FullStore(<<>>)]
    /\ thGen = [t \in Threads |-> 0]
    /\ thOutcomes = [t \in Threads |-> <<>>]
    /\ thProgress = [t \in Threads |-> <<>>]
    /\ nRebuilds = 0
    /\ loadDocsBtn = TRUE
    /\ uiAutocomplete = FALSE
    /\ srResult = NoResult

IndexIdle ==
    /\ diskIndex = AbsentFile
    /\ diskDocs = AbsentFile
    /\ index = EmptyIndex
    /\ documents = <<>>
    /\ thPc = [t \in Threads |-> "idle"]
    /\ thChunks = [t \in Threads |-> <<>>]
    /\ thPrev = [t \in Threads |-> FullStore(<<>>)]
    /\ thGen = [t \in Threads |-> 0]
    /\ thOutcomes = [t \in Threads |-> <<>>]
    /\ thProgress = [t \in Threads |-> <<>>]
    /\ nRebuilds = 0
    /\ loadDocsBtn = TRUE
    /\ uiAutocomplete = FALSE
    /\ srResult = NoResult

\* MainWindow._index_documents: disable the button, create and start a thread
IndexDocumentsStart(t) ==
    /\ thPc[t] = "idle"
    /\ \A u \in Threads : thPc[u] = "idle" => t <= u
    /\ nRebuilds < MaxRebuilds
    /\ loadDocsBtn' = FALSE
    /\ thPc' = [thPc EXCEPT ![t] = "extract"]
    /\ thChunks' = [thChunks EXCEPT ![t] = <<>>]
    /\ thPrev' = [thPrev EXCEPT ![t] = Store]
    /\ thGen' = [thGen EXCEPT ![t] = nRebuilds + 1]
    /\ thOutcomes' = [thOutcomes EXCEPT ![t] = <<>>]
    /\ thProgress' = [thProgress EXCEPT ![t] = <<>>]
    /\ nRebuilds' = nRebuilds + 1
    /\ UNCHANGED <<storeVars, uiAutocomplete, srResult>>
    /\ IndexFrame

\* the toolbar button load_docs_btn: clicked only while it is enabled
ToolbarLoadDocuments ==
    /\ loadDocsBtn
    /\ \E t \in Threads : IndexDocumentsStart(t)

\* the File menu action "Load Documents": never disabled
MenuLoadDocuments ==
    \E t \in Threads : IndexDocumentsStart(t)

\* a variant of ChunksOf, to test the properties that depend on it: the
\* first document that yields nothing or raises ends the loop
ChunksUntilFailure(gen, outcomes) ==
    LET failed == {d \in 1..Len(outcomes) : outcomes[d] # "ok"}
        docs == SelectSeq([d \in 1..Len(outcomes) |-> d],
                          LAMBDA d : \A f \in failed : d < f)
    IN  [i \in 1..Len(docs) |-> Chunk(gen, docs[i])]

\* the chunks of the documents whose extraction succeeded, in folder order
ChunksOf(gen, outcomes) ==
    LET docs == SelectSeq([d \in 1..Len(outcomes) |-> d],
                          LAMBDA d : outcomes[d] = "ok")
    IN  [i \in 1..Len(docs) |-> Chunk(gen, docs[i])]

\* a variant of ProgressOf, to test the properties that depend on it: the
\* share of the documents processed, as a percentage of the whole run
ProgressOfDocuments(processed_count, found) == (processed_count * 100) \div found

\* progress = 20 + int((processed_count / len(documents)) * 50)
ProgressOf(processed_count, found) == 20 + (processed_count * 50) \div found

\* the progress reported in the loop over the documents from the d-th on
RECURSIVE LoopProgress(_, _, _)
LoopProgress(outcomes, d, processed_count) ==
    IF d > Len(outcomes) THEN <<>>
    ELSE IF outcomes[d] = "ok"
         THEN <<ProgressOf(processed_count + 1, Len(outcomes))>>
                 \o LoopProgress(outcomes, d + 1, processed_count + 1)
         ELSE LoopProgress(outcomes, d + 1, processed_count)

\* what DocumentIndexer.run and index_documents report up to the end of the
\* loop: 10 by run; then 10 when the folder exists, 20 when it has documents
ExtractionProgress(outcomes, folder_exists) ==
    IF ~folder_exists THEN <<10>>
    ELSE IF outcomes = <<>> THEN <<10, 10>>
    ELSE <<10, 10, 20>> \o LoopProgress(outcomes, 1, 0)

\* index_documents up to "if not all_chunks": scan the folder, extract and chunk
\* every document; a document that yields nothing or raises is skipped
ExtractDocuments(t) ==
    /\ thPc[t] = "extract"
    /\ \E outcomes \in SeqsUpTo({"ok", "none", "raise"}, MaxDocs), folder_exists \in BOOLEAN :
          LET chunks == ChunksOf(thGen[t], outcomes)
          IN  /\ ~folder_exists => outcomes = <<>>
              /\ thProgress' = [thProgress EXCEPT ![t] =
                                   ExtractionProgress(outcomes, folder_exists)]
              /\ thOutcomes' = [thOutcomes EXCEPT ![t] = outcomes]
              /\ thChunks' = [thChunks EXCEPT ![t] = chunks]
              /\ thPc' = [thPc EXCEPT ![t] =
                            IF chunks = <<>> THEN "failed" ELSE "embed"]
    /\ UNCHANGED <<storeVars, thPrev, thGen, nRebuilds, loadDocsBtn,
                   uiAutocomplete, srResult>>
    /\ IndexFrame

\* a step of index_documents raises: the outer except returns False
StepRaises(t, at) ==
    /\ thPc[t] \in at
    /\ thPc' = [thPc EXCEPT ![t] = "failed"]

\* progress_callback(70, ...); embeddings = self.embedder.encode(chunk_texts);
\* progress_callback(85, ...)
Embed(t) ==
    /\ \/ /\ thPc[t] = "embed"
          /\ thPc' = [thPc EXCEPT ![t] = "clear"]
          /\ thProgress' = [thProgress EXCEPT ![t] = @ \o <<70, 85>>]
       \/ /\ StepRaises(t, {"embed"})
          /\ thProgress' = [thProgress EXCEPT ![t] = Append(@, 70)]
    /\ UNCHANGED <<storeVars, thChunks, thPrev, thGen, thOutcomes, nRebuilds, loadDocsBtn, uiAutocomplete, srResult>>
    /\ IndexFrame

\* self.vector_store.clear()
Clear(t) ==
    /\ thPc[t] = "clear"
    /\ index' = NoIndex
    /\ documents' = <<>>
    /\ thPc' = [thPc EXCEPT ![t] = "create"]
    /\ UNCHANGED <<diskIndex, diskDocs, thChunks, thPrev, thGen, thOutcomes, thProgress, nRebuilds, loadDocsBtn, uiAutocomplete, srResult>>
    /\ IndexFrame

\* self.vector_store.create_index(): a FAISS error is re-raised
CreateIndex(t) ==
    /\ \/ /\ thPc[t] = "create"
          /\ index' = EmptyIndex
          /\ thPc' = [thPc EXCEPT ![t] = "add"]
       \/ StepRaises(t, {"create"}) /\ UNCHANGED index
    /\ UNCHANGED <<documents, diskIndex, diskDocs, thChunks, thPrev, thGen, thOutcomes, thProgress, nRebuilds,
                   loadDocsBtn, uiAutocomplete, srResult>>
    /\ IndexFrame

\* add_documents up to self.index.add_with_ids(embeddings, ids)
AddWithIds(t) ==
    /\ \/ /\ thPc[t] = "add"
          /\ index' = [exists |-> TRUE,
                       entries |-> (IF index.exists THEN index.entries ELSE <<>>)
                                   \o IndexEntries(Len(documents), thChunks[t])]
          /\ thPc' = [thPc EXCEPT ![t] = "extend"]
       \/ StepRaises(t, {"add"}) /\ UNCHANGED index
    /\ UNCHANGED <<documents, diskIndex, diskDocs, thChunks, thPrev, thGen, thOutcomes, thProgress, nRebuilds,
                   loadDocsBtn, uiAutocomplete, srResult>>
    /\ IndexFrame

\* add_documents: self.documents.extend(documents)
ExtendDocuments(t) ==
    /\ thPc[t] = "extend"
    /\ documents' = documents \o thChunks[t]
    /\ thPc' = [thPc EXCEPT ![t] = "save_index"]
    /\ UNCHANGED <<index, diskIndex, diskDocs, thChunks, thPrev, thGen, thOutcomes, thProgress, nRebuilds,
                   loadDocsBtn, uiAutocomplete, srResult>>
    /\ IndexFrame

\* save(): faiss.write_index(self.index, index_file); an error is re-raised,
\* before the file is touched or with the file cut short
SaveIndexFile(t) ==
    /\ \/ /\ thPc[t] = "save_index"
          /\ index.exists
          /\ diskIndex' = File(index.entries)
          /\ thPc' = [thPc EXCEPT ![t] = "save_docs"]
       \/ StepRaises(t, {"save_index"}) /\ diskIndex' \in {diskIndex, CorruptFile}
    /\ UNCHANGED <<index, documents, diskDocs, thChunks, thPrev, thGen, thOutcomes, thProgress, nRebuilds,
                   loadDocsBtn, uiAutocomplete, srResult>>
    /\ IndexFrame

\* save(): pickle.dump(self.documents, f); then progress_callback(100, ...)
\* and index_documents returns True
SaveDocsFile(t) ==
    /\ \/ /\ thPc[t] = "save_docs"
          /\ diskDocs' = File(documents)
          /\ thPc' = [thPc EXCEPT ![t] = "ok"]
          /\ thProgress' = [thProgress EXCEPT ![t] = Append(@, 100)]
       \/ /\ StepRaises(t, {"save_docs"})
          /\ diskDocs' \in {diskDocs, CorruptFile}
          /\ UNCHANGED thProgress
    /\ UNCHANGED <<index, documents, diskIndex, thChunks, thPrev, thGen, thOutcomes, nRebuilds,
                   loadDocsBtn, uiAutocomplete, srResult>>
    /\ IndexFrame

\* MainWindow._on_indexing_finished(success, message)
OnIndexingFinished(t) ==
    /\ thPc[t] \in {"ok", "failed"}
    /\ loadDocsBtn' = TRUE
    /\ uiAutocomplete' = (uiAutocomplete \/ thPc[t] = "ok")
    /\ thPc' = [thPc EXCEPT ![t] = "idle"]
    /\ thChunks' = [thChunks EXCEPT ![t] = <<>>]
    /\ thPrev' = [thPrev EXCEPT ![t] = FullStore(<<>>)]
    /\ thGen' = [thGen EXCEPT ![t] = 0]
    /\ thOutcomes' = [thOutcomes EXCEPT ![t] = <<>>]
    /\ thProgress' = [thProgress EXCEPT ![t] = <<>>]
    /\ UNCHANGED <<storeVars, nRebuilds, srResult>>
    /\ IndexFrame

\* MainWindow._on_text_changed -> Autocomplete.get_suggestions ->
\* LocalSearch.search -> VectorStore.search, on the GUI thread
SearchWhileIndexing ==
    /\ uiAutocomplete
    /\ srResult' = [stamp |-> 1 - srResult.stamp,
                    result |-> VectorStoreSearch(Store, TopK)]
    /\ UNCHANGED <<storeVars, thPc, thChunks, thPrev, thGen, thOutcomes, thProgress, nRebuilds, loadDocsBtn, uiAutocomplete>>
    /\ IndexFrame

\* the steps of the indexer threads and of the GUI thread beside them
IndexerNext ==
    \/ \E t \in Threads :
          \/ ExtractDocuments(t)
          \/ Embed(t)
          \/ Clear(t)
          \/ CreateIndex(t)
          \/ AddWithIds(t)
          \/ ExtendDocuments(t)
          \/ SaveIndexFile(t)
          \/ SaveDocsFile(t)
          \/ OnIndexingFinished(t)
    \/ SearchWhileIndexing

\* every entry point of the user interface
IndexNext == ToolbarLoadDocuments \/ MenuLoadDocuments \/ IndexerNext

\* the user starts rebuilds with the toolbar button only
RebuildNext == ToolbarLoadDocuments \/ IndexerNext

(***************************************************************************)
(* OnlineSearch (src/retrieval/online_search.py): the query cache and its  *)
(* file.  A mapping gives, per query, whether the query is a key and the   *)
(* result list stored for it; a result list is a sequence of page ids.     *)
(* The cache file is absent, readable ("ok") or cut short by an            *)
(* interrupted write ("corrupt": pickle.load raises on it).                *)
(***************************************************************************)
\* the query strings; the last one is blank
CacheQueries == {"alpha", "beta", " "}

\* not query or not query.strip()
IsBlank(query) == query = " "

Pages == {1, 2}

\* what _search_wikipedia can return: <<>> when nothing is found or the
\* lookup fails
FetchOutcomes == SeqsUpTo(Pages, MaxFetched)

NoEntry == [cached |-> FALSE, results |-> <<>>]

\* a variant of Entry, to test the properties that depend on it: the query
\* becomes a key but the list is not stored
EntryWithoutResults(results) == [cached |-> TRUE, results |-> <<>>]

Entry(results) == [cached |-> TRUE, results |-> results]
EmptyCache == [q \in CacheQueries |-> NoEntry]

\* _load_cache: the file's mapping; a missing file leaves the cache {} and an
\* unreadable one sets it to {}
LoadCache(file) == IF file.state = "ok" THEN file.data ELSE EmptyCache

NoCalls == [q \in CacheQueries |-> 0]
NotCleared == [done |-> FALSE, keys |-> {}]
NoSearch == [query |-> " ", what |-> "none", saved |-> "none"]
NoFirst == [q \in CacheQueries |-> "none"]

\* a variant of CacheHit, to test the properties that depend on it: the cache is never consulted
CacheNeverHit(query) == FALSE

\* self.cache_enabled and query in self.cache
CacheHit(query) == cache_enabled /\ cache[query].cached

\* the variables of the other subsystems
CacheFrame ==
    UNCHANGED <<rankVars, storeVars, buildVars, listenVars, editVars, suggestVars, localVars, callVars, lookupVars, startVars, queryVars, chunkVars, contextVars, replaceVars, overlayVars>>

\* OnlineSearch.__init__ on a machine with no cache file
CacheInit ==
    /\ cache_enabled \in BOOLEAN
    /\ cache = EmptyCache
    /\ cacheFile = [state |-> "absent", data |-> EmptyCache]
    /\ osPc = "ready"
    /\ osRet = <<>>
    /\ osCalls = NoCalls
    /\ osFetches = NoCalls
    /\ osFirst = NoFirst
    /\ svOld = EmptyCache
    /\ svNew = EmptyCache
    /\ osCrashed = "no"
    /\ osCleared = NotCleared
    /\ osLast = NoSearch

CacheIdle ==
    /\ cache_enabled = TRUE
    /\ cache = EmptyCache
    /\ cacheFile = [state |-> "absent", data |-> EmptyCache]
    /\ osPc = "ready"
    /\ osRet = <<>>
    /\ osCalls = NoCalls
    /\ osFetches = NoCalls
    /\ osFirst = NoFirst
    /\ svOld = EmptyCache
    /\ svNew = EmptyCache
    /\ osCrashed = "no"
    /\ osCleared = NotCleared
    /\ osLast = NoSearch

\* the history of a call of search(query) that did `what`
Called(query, what) ==
    /\ osCalls' = [osCalls EXCEPT ![query] = @ + 1]
    /\ osFirst' = [osFirst EXCEPT ![query] = IF @ = "none" THEN what ELSE @]
    /\ osCrashed' = "no"
    /\ osLast' = [query |-> query, what |-> what, saved |-> "none"]

\* search(query) up to the call of _save_cache
Search(query) ==
    /\ osPc = "ready"
    /\ osCalls[query] < MaxCalls
    /\ \/ /\ IsBlank(query)
          /\ osRet' = <<>>
          /\ Called(query, "blank")
          /\ UNCHANGED <<cache, osPc, osFetches, svOld, svNew>>
       \/ /\ ~IsBlank(query)
          /\ CacheHit(query)
          /\ osRet' = cache[query].results
          /\ Called(query, "hit")
          /\ UNCHANGED <<cache, osPc, osFetches, svOld, svNew>>
       \/ /\ ~IsBlank(query)
          /\ ~CacheHit(query)
          /\ \E results \in FetchOutcomes :
                /\ osRet' = results
                /\ osFetches' = [osFetches EXCEPT ![query] = @ + 1]
                /\ Called(query, IF results = <<>> THEN "empty" ELSE "results")
                /\ IF cache_enabled /\ results # <<>>
                   THEN /\ cache' = [cache EXCEPT ![query] = Entry(results)]
                        /\ osPc' = "save_open"
                        /\ svOld' = LoadCache(cacheFile)
                        /\ svNew' = cache'
                   ELSE UNCHANGED <<cache, osPc, svOld, svNew>>
    /\ osCleared' = [osCleared EXCEPT !.done = FALSE]
    /\ UNCHANGED <<cache_enabled, cacheFile>>
    /\ CacheFrame

\* _save_cache: open(self.cache_path, 'wb') truncates the file; a failing
\* mkdir or open is logged and leaves the file as it was
SaveOpen ==
    /\ osPc = "save_open"
    /\ \/ /\ cacheFile' = [state |-> "corrupt", data |-> EmptyCache]
          /\ osPc' = "save_dump"
          /\ UNCHANGED osLast
       \/ /\ osPc' = "ready"
          /\ osLast' = [osLast EXCEPT !.saved = "failed"]
          /\ UNCHANGED cacheFile
    /\ UNCHANGED <<cache_enabled, cache, osRet, osCalls, osFetches, osFirst,
                   svOld, svNew, osCrashed, osCleared>>
    /\ CacheFrame

\* _save_cache: pickle.dump(self.cache, f); a failing dump is logged and
\* leaves the file cut short
SaveDump ==
    /\ osPc = "save_dump"
    /\ \/ /\ cacheFile' = [state |-> "ok", data |-> cache]
          /\ osLast' = [osLast EXCEPT !.saved = "ok"]
       \/ /\ UNCHANGED cacheFile
          /\ osLast' = [osLast EXCEPT !.saved = "failed"]
    /\ osPc' = "ready"
    /\ UNCHANGED <<cache_enabled, cache, osRet, osCalls, osFetches, osFirst,
                   svOld, svNew, osCrashed, osCleared>>
    /\ CacheFrame

\* a variant of ClearCache, to test the properties that depend on it: the
\* file is removed but self.cache is kept
ClearCacheFileOnly ==
    /\ osPc = "ready"
    /\ cacheFile' = [state |-> "absent", data |-> EmptyCache]
    /\ osCleared' = [done |-> FALSE,
                     keys |-> {q \in CacheQueries : cache[q].cached}]
    /\ osCalls' = NoCalls
    /\ osFetches' = NoCalls
    /\ osFirst' = NoFirst
    /\ osCrashed' = "no"
    /\ osLast' = NoSearch
    /\ UNCHANGED <<cache_enabled, cache, osPc, osRet, svOld, svNew>>
    /\ CacheFrame

\* clear_cache(): self.cache = {}; unlink the file if it exists.  An error
\* of unlink leaves clear_cache as an exception, the file still there.
ClearCache ==
    /\ osPc = "ready"
    /\ cache' = EmptyCache
    /\ \/ /\ cacheFile' = [state |-> "absent", data |-> EmptyCache]
          /\ osCleared' = [done |-> TRUE,
                           keys |-> {q \in CacheQueries : cache[q].cached}]
       \/ /\ cacheFile.state # "absent"
          /\ UNCHANGED cacheFile
          /\ osCleared' = NotCleared
    /\ osCalls' = NoCalls
    /\ osFetches' = NoCalls
    /\ osFirst' = NoFirst
    /\ osCrashed' = "no"
    /\ osLast' = NoSearch
    /\ UNCHANGED <<cache_enabled, osPc, osRet, svOld, svNew>>
    /\ CacheFrame

\* the process dies and is started again: __init__ with the same
\* cache_enabled runs _load_cache on whatever file the crash left
CrashAndRestart ==
    /\ osCrashed' = IF osPc = "ready" THEN "outside" ELSE "in_save"
    /\ cache' = IF cache_enabled THEN LoadCache(cacheFile) ELSE EmptyCache
    /\ osPc' = "ready"
    /\ osRet' = <<>>
    /\ osCalls' = NoCalls
    /\ osFetches' = NoCalls
    /\ osFirst' = NoFirst
    /\ osCleared' = NotCleared
    /\ osLast' = NoSearch
    /\ UNCHANGED <<cache_enabled, cacheFile, svOld, svNew>>
    /\ CacheFrame

CacheNext ==
    \/ \E query \in CacheQueries : Search(query)
    \/ SaveOpen
    \/ SaveDump
    \/ ClearCache
    \/ CrashAndRestart

(***************************************************************************)
(* KeystrokeListener (src/src/keystroke_listener.py) and the requests it   *)
(* starts (src/src/ui.py).  Time is counted in ticks of 100 ms.  Every     *)
(* trigger starts a daemon thread that runs MainWindow._on_typing_context. *)
(***************************************************************************)
\* the characters typed: a letter and a boundary character
Chars == {"a", " "}

\* last_char in [' ', '.', ',', '!', '?', '\n']
BoundaryChars == {" ", ".", ",", "!", "?", "\n"}

\* listener.debounce_ms = 300, in ticks
KsDebounce == 3

\* listener.trigger_threshold
KsThreshold == 10

Requests == 1..MaxRequests

NotFired == [fired |-> FALSE, elapsed |-> 0, appended |-> 0, last |-> "none"]
Fired(elapsed, appended, last) ==
    [fired |-> TRUE, elapsed |-> elapsed, appended |-> appended, last |-> last]

NothingShown == [req |-> 0, latest |-> 0]

\* deque(maxlen=context_window_size).append(char)
Push(buffer, char) ==
    IF Len(buffer) = ContextWindow THEN Tail(buffer) \o <<char>>
    ELSE Append(buffer, char)

\* _check_trigger: the three tests before the thread is started
ShouldTrigger(elapsed, count, buffer) ==
    /\ ~(elapsed < KsDebounce)
    /\ ~(count < KsThreshold)
    /\ buffer # <<>>
    /\ buffer[Len(buffer)] \in BoundaryChars

\* the variables of the other subsystems
ListenFrame ==
    UNCHANGED <<rankVars, storeVars, buildVars, cacheVars, editVars, suggestVars, localVars, callVars, lookupVars, startVars, queryVars, chunkVars, contextVars, replaceVars, overlayVars>>

\* KeystrokeListener.__init__: _last_trigger_time = 0, long before the first key
ListenInit ==
    /\ ksBuffer = <<>>
    /\ ksElapsed = KsDebounce
    /\ ksCount = 0
    /\ ksAppended = 0
    /\ ksLastKey = "none"
    /\ ksFired = NotFired
    /\ rqState = [r \in Requests |-> "none"]
    /\ nIssued = 0
    /\ ovShown = NothingShown

ListenIdle == ListenInit

\* _on_key_press of a character key: _add_to_buffer, then _check_trigger
KeyChar(char) ==
    /\ ksAppended < MaxTyped
    /\ nIssued < MaxRequests
    /\ LET buffer == Push(ksBuffer, char)
           count == ksCount + 1
       IN  /\ ksBuffer' = buffer
           /\ ksLastKey' = char
           /\ IF ShouldTrigger(ksElapsed, count, buffer)
              THEN /\ nIssued' = nIssued + 1
                   /\ rqState' = [rqState EXCEPT ![nIssued + 1] = "running"]
                   /\ ksElapsed' = 0
                   /\ ksCount' = 0
                   /\ ksAppended' = 0
                   /\ ksFired' = Fired(ksElapsed, ksAppended + 1, char)
              ELSE /\ ksCount' = count
                   /\ ksAppended' = ksAppended + 1
                   /\ UNCHANGED <<nIssued, rqState, ksElapsed, ksFired>>
    /\ UNCHANGED ovShown
    /\ ListenFrame

\* _on_key_press of backspace: _handle_backspace
KeyBackspace ==
    /\ ksBuffer' = IF Len(ksBuffer) > 0 THEN SubSeq(ksBuffer, 1, Len(ksBuffer) - 1)
                   ELSE ksBuffer
    /\ ksLastKey' = "backspace"
    /\ UNCHANGED <<ksElapsed, ksCount, ksAppended, ksFired, rqState, nIssued, ovShown>>
    /\ ListenFrame

\* clear_context()
ClearContext ==
    /\ ksBuffer' = <<>>
    /\ ksCount' = 0
    /\ UNCHANGED <<ksElapsed, ksAppended, ksLastKey, ksFired, rqState, nIssued, ovShown>>
    /\ ListenFrame

\* 100 ms pass
ListenTick ==
    /\ ksElapsed' = Min(ksElapsed + 1, KsDebounce)
    /\ UNCHANGED <<ksBuffer, ksCount, ksAppended, ksLastKey, ksFired, rqState,
                   nIssued, ovShown>>
    /\ ListenFrame

\* the thread of request r ends _on_typing_context: non-empty suggestions are
\* handed to the overlay, an empty list or an exception shows nothing
OnTypingContext(r) ==
    /\ rqState[r] = "running"
    /\ rqState' = [rqState EXCEPT ![r] = "done"]
    /\ \E suggestions \in BOOLEAN :
          ovShown' = IF suggestions THEN [req |-> r, latest |-> nIssued] ELSE ovShown
    /\ UNCHANGED <<ksBuffer, ksElapsed, ksCount, ksAppended, ksLastKey, ksFired, nIssued>>
    /\ ListenFrame

ListenNext ==
    \/ \E char \in Chars : KeyChar(char)
    \/ KeyBackspace
    \/ ClearContext
    \/ ListenTick
    \/ \E r \in Requests : OnTypingContext(r)

(***************************************************************************)
(* TextEditor (src/ui/editor.py) and MainWindow._on_text_changed           *)
(* (src/ui/main_window.py): every text change restarts a single-shot       *)
(* timer; its timeout emits text_changed_delayed, and the main window      *)
(* requests suggestions.  Time is counted in ticks of 100 ms.              *)
(***************************************************************************)
\* TextEditor(debounce_ms=500), in ticks
EdDebounce == 5

\* len(context) > 10
MinContext == 10

\* suggestion.trigger_threshold of the editor application's configuration
EdThreshold == 3

\* the variables of the other subsystems
EditFrame ==
    UNCHANGED <<rankVars, storeVars, buildVars, cacheVars, listenVars, suggestVars, localVars, callVars, lookupVars, startVars, queryVars, chunkVars, contextVars, replaceVars, overlayVars>>

EditInit ==
    /\ edLen = 0
    /\ edTimer = -1
    /\ edToggle = TRUE
    /\ edNew = 0
    /\ edLastKey = "none"
    /\ edElapsed = EdDebounce
    /\ edFired = NotFired
    /\ edSince = EdDebounce
    /\ edEmits = -1
    /\ edQuiet = EdDebounce

EditIdle == EditInit

\* the store and the window after one successful rebuild of a one-document folder
IndexBuilt ==
    /\ diskIndex = File(IndexEntries(0, <<Chunk(1, 1)>>))
    /\ diskDocs = File(<<Chunk(1, 1)>>)
    /\ index = [exists |-> TRUE, entries |-> IndexEntries(0, <<Chunk(1, 1)>>)]
    /\ documents = <<Chunk(1, 1)>>
    /\ thPc = [t \in Threads |-> "idle"]
    /\ thChunks = [t \in Threads |-> <<>>]
    /\ thPrev = [t \in Threads |-> FullStore(<<>>)]
    /\ thGen = [t \in Threads |-> 0]
    /\ thOutcomes = [t \in Threads |-> <<>>]
    /\ thProgress = [t \in Threads |-> <<>>]
    /\ nRebuilds = 1
    /\ loadDocsBtn = TRUE
    /\ uiAutocomplete = TRUE
    /\ srResult = NoResult

\* a variant of RestartTimer, to test the properties that depend on it: a
\* running timer is left alone
StartTimerIfStopped == edTimer' = IF edTimer >= 0 THEN edTimer ELSE EdDebounce

\* TextEditor._on_text_changed: stop and restart the timer
RestartTimer == edTimer' = EdDebounce

\* the history of a text change: a new quiet period begins
TextChanged ==
    /\ edSince' = 0
    /\ edEmits' = 0
    /\ UNCHANGED edQuiet

\* the user types a character at the end of the text
EditorType(char) ==
    /\ edLen < MaxText
    /\ edLen' = edLen + 1
    /\ edNew' = Min(edNew + 1, EdThreshold)
    /\ edLastKey' = char
    /\ RestartTimer
    /\ TextChanged
    /\ UNCHANGED <<edToggle, edElapsed, edFired>>
    /\ EditFrame

\* the user deletes the last character
EditorDelete ==
    /\ edLen > 0
    /\ edLen' = edLen - 1
    /\ edLastKey' = "backspace"
    /\ RestartTimer
    /\ TextChanged
    /\ UNCHANGED <<edToggle, edNew, edElapsed, edFired>>
    /\ EditFrame

\* 100 ms pass
EditorTick ==
    /\ edTimer' = IF edTimer > 0 THEN edTimer - 1 ELSE edTimer
    /\ edElapsed' = Min(edElapsed + 1, EdDebounce)
    /\ edSince' = Min(edSince + 1, EdDebounce)
    /\ UNCHANGED <<edLen, edToggle, edNew, edLastKey, edFired, edEmits, edQuiet>>
    /\ EditFrame

\* _on_debounce_timeout emits text_changed_delayed; MainWindow._on_text_changed
\* calls get_suggestions when the toggle is on, the engines exist and the
\* context is longer than 10 characters
OnDebounceTimeout ==
    /\ edTimer = 0
    /\ edTimer' = -1
    /\ edEmits' = Min(edEmits + 1, 2)
    /\ edQuiet' = edSince
    /\ UNCHANGED edSince
    /\ IF edToggle /\ uiAutocomplete /\ edLen > MinContext
       THEN /\ edFired' = Fired(edElapsed, edNew, edLastKey)
            /\ edNew' = 0
            /\ edElapsed' = 0
       ELSE UNCHANGED <<edFired, edNew, edElapsed>>
    /\ UNCHANGED <<edLen, edToggle, edLastKey>>
    /\ EditFrame

\* MainWindow._toggle_suggestions
ToggleSuggestions ==
    /\ edToggle' = ~edToggle
    /\ UNCHANGED <<edLen, edTimer, edNew, edLastKey, edElapsed, edFired, edSince, edEmits, edQuiet>>
    /\ EditFrame

EditNext ==
    \/ \E char \in Chars : EditorType(char)
    \/ EditorDelete
    \/ EditorTick
    \/ OnDebounceTimeout
    \/ ToggleSuggestions

(***************************************************************************)
(* Autocomplete.get_suggestions (src/suggestion/autocomplete.py) and       *)
(* AITextGenerator.generate_multiple (src/suggestion/ai_generator.py).     *)
(* A suggestion is a string; "" stands for the empty string and for None.  *)
(* A search result is kept as its source and the string                    *)
(* _generate_suggestion_from_result derives from it.                       *)
(***************************************************************************)
Texts == {"x", "y"}

\* the exceptions a collaborator raises: subclasses of Exception
Exceptions == {"RuntimeError", "ConnectionError"}

ResultsOf(source) == [source : {source}, derived : Texts \cup {""}]

\* _generate_suggestion_from_result(result, context)
SuggestionFromResult(result) == result.derived

\* a variant of AppendNew, to test the properties that depend on it: the candidate is not compared with the list
AppendUnchecked(suggestions, suggestion) ==
    IF suggestion # "" THEN Append(suggestions, suggestion) ELSE suggestions

\* if suggestion and suggestion not in suggestions: suggestions.append(suggestion)
AppendNew(suggestions, suggestion) ==
    IF suggestion # "" /\ ~InSeq(suggestion, suggestions)
    THEN Append(suggestions, suggestion)
    ELSE suggestions

\* generate_multiple: one generate call per i in range(count); outs are the
\* strings the calls return ("" when a call fails)
RECURSIVE GenerateMultiple(_, _)
GenerateMultiple(suggestions, outs) ==
    IF outs = <<>> THEN suggestions
    ELSE GenerateMultiple(AppendNew(suggestions, Head(outs)), Tail(outs))

\* a variant of TemplateStage, to test the properties that depend on it: no
\* template candidate is added
TemplateSkipped(suggestions, results, count) == suggestions

\* the template loop over local_results[:num_suggestions * 2]
RECURSIVE TemplateStage(_, _, _)
TemplateStage(suggestions, results, count) ==
    IF results = <<>> \/ Len(suggestions) >= count THEN suggestions
    ELSE TemplateStage(AppendNew(suggestions, SuggestionFromResult(Head(results))),
                       Tail(results), count)

\* the loop over online_results[:num_suggestions - len(suggestions)]
RECURSIVE OnlineStage(_, _)
OnlineStage(suggestions, results) ==
    IF results = <<>> THEN suggestions
    ELSE OnlineStage(AppendNew(suggestions, SuggestionFromResult(Head(results))),
                     Tail(results))

\* a variant of OuterExcept, to test the properties that depend on it: the handler logs the exception and raises it again
OuterExceptReraises(exception) == [ret |-> <<>>, error |-> exception]

\* except Exception as e: logger.error(...); return []
OuterExcept(exception) == [ret |-> <<>>, error |-> "none"]

\* the variables of the other subsystems
SuggestFrame ==
    UNCHANGED <<rankVars, storeVars, buildVars, cacheVars, listenVars, editVars, localVars, callVars, lookupVars, startVars, queryVars, chunkVars, contextVars, replaceVars, overlayVars>>

SuggestInit ==
    /\ online_search \in BOOLEAN
    /\ sgPc = "idle"
    /\ sgCount = 0
    /\ sgLocal = <<>>
    /\ sgSuggestions = <<>>
    /\ sgRet = <<>>
    /\ sgError = "none"
    /\ sgCaught = "none"
    /\ sgOrigins = <<>>
    /\ sgOnlineAt = -1

SuggestIdle ==
    /\ online_search = TRUE
    /\ sgPc = "idle"
    /\ sgCount = 0
    /\ sgLocal = <<>>
    /\ sgSuggestions = <<>>
    /\ sgRet = <<>>
    /\ sgError = "none"
    /\ sgCaught = "none"
    /\ sgOrigins = <<>>
    /\ sgOnlineAt = -1

\* the origins of a list that a stage extended from the list `origins` describes
Extended(origins, suggestions, stage) ==
    origins \o [i \in 1..(Len(suggestions) - Len(origins)) |-> stage]

\* a variant of NeedsOnline, to test the properties that depend on it: the
\* fallback runs whenever an online search exists
AlwaysOnline(suggestions, count) == online_search

\* if len(suggestions) < num_suggestions and self.online_search
NeedsOnline(suggestions, count) == Len(suggestions) < count /\ online_search

\* get_suggestions(context, num_suggestions) up to the try block: a blank
\* context returns []
GetSuggestions(blank, count) ==
    /\ sgPc = "idle"
    /\ sgCount' = count
    /\ sgLocal' = <<>>
    /\ sgSuggestions' = <<>>
    /\ sgRet' = <<>>
    /\ sgError' = "none"
    /\ sgCaught' = "none"
    /\ sgOrigins' = <<>>
    /\ sgOnlineAt' = -1
    /\ sgPc' = IF blank THEN "done" ELSE "search"
    /\ UNCHANGED online_search
    /\ SuggestFrame

\* a statement of the try block raises: the outer handler ends the call
RaisesInTry(at) ==
    /\ sgPc = at
    /\ \E exception \in Exceptions :
          /\ sgRet' = OuterExcept(exception).ret
          /\ sgError' = OuterExcept(exception).error
    /\ sgCaught' = "outer"
    /\ sgPc' = "done"
    /\ UNCHANGED <<online_search, sgCount, sgLocal, sgSuggestions, sgOrigins>>

\* query = self._extract_query(context); local_results = self.local_search.search(query, top_k=5)
SearchLocal ==
    /\ \/ /\ sgPc = "search"
          /\ sgLocal' \in SeqsUpTo(ResultsOf("local"), MaxLocal)
          /\ sgPc' = "generate"
          /\ UNCHANGED <<online_search, sgCount, sgSuggestions, sgRet, sgError,
                         sgCaught, sgOrigins>>
       \/ RaisesInTry("search")
    /\ UNCHANGED sgOnlineAt
    /\ SuggestFrame

\* the AI stage: skipped without an available generator; generate_multiple
\* extends the list, or raises into the inner handler; is_available() raising
\* reaches the outer handler
Generate ==
    /\ \/ /\ sgPc = "generate"
          /\ sgPc' = "template"
          /\ \/ UNCHANGED <<sgSuggestions, sgCaught>>
             \/ /\ \E outs \in [1..sgCount -> Texts \cup {""}] :
                      sgSuggestions' = sgSuggestions \o GenerateMultiple(<<>>, outs)
                /\ UNCHANGED sgCaught
             \/ /\ sgCaught' = "inner"
                /\ UNCHANGED sgSuggestions
          /\ sgOrigins' = Extended(sgOrigins, sgSuggestions', "ai")
          /\ UNCHANGED <<online_search, sgCount, sgLocal, sgRet, sgError>>
       \/ RaisesInTry("generate")
    /\ UNCHANGED sgOnlineAt
    /\ SuggestFrame

\* the template stage over the local results
Template ==
    /\ sgPc = "template"
    /\ sgSuggestions' =
          IF Len(sgSuggestions) < sgCount /\ sgLocal # <<>>
          THEN TemplateStage(sgSuggestions, Take(sgLocal, sgCount * 2), sgCount)
          ELSE sgSuggestions
    /\ sgOrigins' = Extended(sgOrigins, sgSuggestions', "local")
    /\ sgPc' = "online"
    /\ UNCHANGED <<online_search, sgCount, sgLocal, sgRet, sgError, sgCaught,
                   sgOnlineAt>>
    /\ SuggestFrame

\* the online fallback: self.online_search.search(query) returns a list or raises
Online ==
    /\ \/ /\ sgPc = "online"
          /\ IF NeedsOnline(sgSuggestions, sgCount)
             THEN /\ \E results \in SeqsUpTo(ResultsOf("wikipedia"), MaxOnline) :
                        sgSuggestions' =
                           OnlineStage(sgSuggestions,
                                       Take(results, sgCount - Len(sgSuggestions)))
                  /\ sgOnlineAt' = Len(sgSuggestions)
             ELSE UNCHANGED <<sgSuggestions, sgOnlineAt>>
          /\ sgOrigins' = Extended(sgOrigins, sgSuggestions', "remote")
          /\ sgPc' = "return"
          /\ UNCHANGED <<online_search, sgCount, sgLocal, sgRet, sgError, sgCaught>>
       \/ /\ NeedsOnline(sgSuggestions, sgCount)
          /\ sgOnlineAt' = Len(sgSuggestions)
          /\ RaisesInTry("online")
    /\ SuggestFrame

\* self.online_search.search(query) is entered and the external source never
\* answers: the call is made without a timeout on the calling thread, so the
\* request waits in it and no statement after it runs
OnlineBlocks ==
    /\ sgPc = "online"
    /\ NeedsOnline(sgSuggestions, sgCount)
    /\ sgOnlineAt' = Len(sgSuggestions)
    /\ sgPc' = "blocked"
    /\ UNCHANGED <<online_search, sgCount, sgLocal, sgSuggestions, sgRet, sgError,
                   sgCaught, sgOrigins>>
    /\ SuggestFrame

\* return suggestions[:num_suggestions]
Return ==
    /\ sgPc = "return"
    /\ sgRet' = Take(sgSuggestions, sgCount)
    /\ sgPc' = "done"
    /\ UNCHANGED <<online_search, sgCount, sgLocal, sgSuggestions, sgError, sgCaught,
                   sgOrigins, sgOnlineAt>>
    /\ SuggestFrame

\* the caller has the result; the next request can start
NextRequest ==
    /\ sgPc = "done"
    /\ sgPc' = "idle"
    /\ UNCHANGED <<online_search, sgCount, sgLocal, sgSuggestions, sgRet, sgError,
                   sgCaught, sgOrigins, sgOnlineAt>>
    /\ SuggestFrame

SuggestNext ==
    \/ \E blank \in BOOLEAN, count \in 0..MaxCount : GetSuggestions(blank, count)
    \/ SearchLocal
    \/ Generate
    \/ Template
    \/ Online
    \/ Return
    \/ NextRequest

(***************************************************************************)
(* The methods of VectorStore called one after another on one object, in   *)
(* any order, as its public interface allows; NewInstance constructs a     *)
(* new object on the same index_path.  Queries and embeddings have the     *)
(* index's dimension.                                                      *)
(***************************************************************************)
\* the sizes of the batches given to add_documents
BatchSizes == {1, 2}

\* the top_k arguments of search: below, at and above the sizes of the stores
TopKs == {1, 2, TopK}

\* the chunks of the batch-th add_documents call
Batch(batch, size) == [d \in 1..size |-> Chunk(batch, d)]

\* a variant of SearchWithScores, to test the properties that depend on it:
\* top_k is ignored and every entry of the index is returned
SearchIgnoringTopK(st, top_k) ==
    IF ~st.index.exists \/ Len(st.documents) = 0 THEN <<>>
    ELSE LET found == NearestEntries(st.index.entries, Len(st.index.entries))
             valid == SelectSeq(found, LAMBDA e : e.id >= 0 /\ e.id < Len(st.documents))
         IN  [i \in 1..Len(valid) |->
                [doc |-> st.documents[valid[i].id + 1],
                 score |-> Similarity(valid[i].chunk)]]

\* VectorStore.search on a store content st: the (document, similarity_score)
\* pairs; VectorStoreSearch is the list of their documents
SearchWithScores(st, top_k) ==
    IF ~st.index.exists \/ Len(st.documents) = 0 THEN <<>>
    ELSE LET found == NearestEntries(st.index.entries, Min(top_k, Len(st.documents)))
             valid == SelectSeq(found, LAMBDA e : e.id >= 0 /\ e.id < Len(st.documents))
         IN  [i \in 1..Len(valid) |->
                [doc |-> st.documents[valid[i].id + 1],
                 score |-> Similarity(valid[i].chunk)]]

NothingSaved == [valid |-> FALSE, store |-> [index |-> NoIndex, documents |-> <<>>]]

\* whether the object is as VectorStore.__init__ leaves it
AsConstructed == index = NoIndex /\ documents = <<>>

Call(op, ok) == [op |-> op, ok |-> ok, fresh |-> AsConstructed]

\* the variables of the other subsystems
CallFrame ==
    UNCHANGED <<rankVars, buildVars, cacheVars, listenVars, editVars, suggestVars, localVars, lookupVars, startVars, queryVars, chunkVars, contextVars, replaceVars, overlayVars>>

\* the index rebuild is not running
BuildIdle ==
    /\ thPc = [t \in Threads |-> "idle"]
    /\ thChunks = [t \in Threads |-> <<>>]
    /\ thPrev = [t \in Threads |-> FullStore(<<>>)]
    /\ thGen = [t \in Threads |-> 0]
    /\ thOutcomes = [t \in Threads |-> <<>>]
    /\ thProgress = [t \in Threads |-> <<>>]
    /\ nRebuilds = 0
    /\ loadDocsBtn = TRUE
    /\ uiAutocomplete = FALSE
    /\ srResult = NoResult

\* VectorStore.__init__ with nothing persisted at index_path
CallInit ==
    /\ index = NoIndex
    /\ documents = <<>>
    /\ diskIndex = AbsentFile
    /\ diskDocs = AbsentFile
    /\ vsLast = [op |-> "init", ok |-> TRUE, fresh |-> TRUE]
    /\ vsAdded = 0
    /\ vsTopK = 0
    /\ vsResult = <<>>
    /\ vsSaved = NothingSaved
    /\ vsPaired = TRUE
    /\ vsCrashed = FALSE

CallIdle ==
    /\ vsLast = [op |-> "init", ok |-> TRUE, fresh |-> TRUE]
    /\ vsAdded = 0
    /\ vsTopK = 0
    /\ vsResult = <<>>
    /\ vsSaved = NothingSaved
    /\ vsPaired = TRUE
    /\ vsCrashed = FALSE

\* a new VectorStore object on the same index_path
NewInstance ==
    /\ index' = NoIndex
    /\ documents' = <<>>
    /\ vsLast' = [op |-> "init", ok |-> TRUE, fresh |-> TRUE]
    /\ vsTopK' = 0
    /\ vsResult' = <<>>
    /\ UNCHANGED <<diskIndex, diskDocs, vsAdded, vsSaved, vsPaired, vsCrashed>>
    /\ CallFrame

\* create_index(): self.index becomes a new empty IndexIDMap, self.documents
\* is not touched; a FAISS error is re-raised
CallCreateIndex(ok) ==
    /\ index' = IF ok THEN EmptyIndex ELSE index
    /\ vsLast' = Call("create_index", ok)
    /\ vsTopK' = 0
    /\ vsResult' = <<>>
    /\ UNCHANGED <<documents, diskIndex, diskDocs, vsAdded, vsSaved, vsPaired, vsCrashed>>
    /\ CallFrame

\* add_documents(embeddings, documents): creates the index when there is
\* none, then raises on lists of different lengths or a FAISS error, else
\* adds under the ids len(self.documents).. and extends self.documents
CallAddDocuments(size, ok) ==
    /\ vsAdded < MaxAdds
    /\ vsAdded' = vsAdded + 1
    /\ LET created == IF index.exists THEN index ELSE EmptyIndex
           chunks == Batch(vsAdded + 1, size)
       IN  IF ok
           THEN /\ index' = [exists |-> TRUE,
                             entries |-> created.entries
                                         \o IndexEntries(Len(documents), chunks)]
                /\ documents' = documents \o chunks
           ELSE /\ index' = created
                /\ UNCHANGED documents
    /\ vsLast' = Call("add_documents", ok)
    /\ vsTopK' = 0
    /\ vsResult' = <<>>
    /\ UNCHANGED <<diskIndex, diskDocs, vsSaved, vsPaired, vsCrashed>>
    /\ CallFrame

\* clear()
CallClear ==
    /\ index' = NoIndex
    /\ documents' = <<>>
    /\ vsLast' = Call("clear", TRUE)
    /\ vsTopK' = 0
    /\ vsResult' = <<>>
    /\ UNCHANGED <<diskIndex, diskDocs, vsAdded, vsSaved, vsPaired, vsCrashed>>
    /\ CallFrame

\* the history of a save() that leaves the files newIndex and newDocs: a
\* complete save pairs them; one that changed neither file leaves them as
\* they were; any other leaves the files of two calls, or one cut short
PairedAfter(newIndex, newDocs, complete) ==
    IF complete THEN TRUE
    ELSE IF newIndex = diskIndex /\ newDocs = diskDocs THEN vsPaired
    ELSE FALSE

\* save(): write_index, then pickle.dump of the documents; an error of
\* either is re-raised, before its file is touched or with the file cut
\* short.  outcome is "ok", "index_raises" or "docs_raises".
CallSave(outcome) ==
    /\ outcome = "ok" => index.exists
    /\ outcome = "docs_raises" => index.exists
    /\ diskIndex' \in IF outcome = "index_raises"
                       THEN IF index.exists THEN {diskIndex, CorruptFile}
                                            ELSE {diskIndex}
                       ELSE {File(index.entries)}
    /\ diskDocs' \in CASE outcome = "ok" -> {File(documents)}
                       [] outcome = "docs_raises" -> {diskDocs, CorruptFile}
                       [] OTHER -> {diskDocs}
    /\ vsLast' = Call("save", outcome = "ok")
    /\ vsSaved' = IF outcome = "ok" THEN [valid |-> TRUE, store |-> Store]
                                    ELSE [vsSaved EXCEPT !.valid = FALSE]
    /\ vsPaired' = PairedAfter(diskIndex', diskDocs', outcome = "ok")
    /\ vsCrashed' = FALSE
    /\ vsTopK' = 0
    /\ vsResult' = <<>>
    /\ UNCHANGED <<index, documents, vsAdded>>
    /\ CallFrame

\* the process dies inside save() and is started again with a new object:
\* in write_index (the index file cut short), between the two writes (the
\* index file new, the documents file the old one), or in pickle.dump (the
\* documents file cut short)
CrashInSave ==
    /\ index.exists
    /\ \/ /\ diskIndex' = CorruptFile
          /\ diskDocs' = diskDocs
       \/ /\ diskIndex' = File(index.entries)
          /\ diskDocs' \in {diskDocs, CorruptFile}
    /\ vsPaired' = PairedAfter(diskIndex', diskDocs', FALSE)
    /\ vsCrashed' = TRUE
    /\ index' = NoIndex
    /\ documents' = <<>>
    /\ vsLast' = [op |-> "crash", ok |-> FALSE, fresh |-> TRUE]
    /\ vsSaved' = [vsSaved EXCEPT !.valid = FALSE]
    /\ vsTopK' = 0
    /\ vsResult' = <<>>
    /\ UNCHANGED vsAdded
    /\ CallFrame

\* a variant of LoadStore, to test the properties that depend on it: the
\* documents file is opened but its content is not taken over
LoadStoreIndexOnly(st, indexFile, docsFile) ==
    IF indexFile.state # "ok" \/ docsFile.state = "absent"
    THEN [ok |-> FALSE, index |-> st.index, documents |-> st.documents]
    ELSE [ok |-> docsFile.state = "ok",
          index |-> [exists |-> TRUE, entries |-> indexFile.data],
          documents |-> st.documents]

\* load() on a store content st: False when a file is missing; else
\* self.index = read_index(...), then self.documents = pickle.load(...);
\* an error of either returns False
LoadStore(st, indexFile, docsFile) ==
    IF indexFile.state = "absent" \/ docsFile.state = "absent"
       \/ indexFile.state = "corrupt"
    THEN [ok |-> FALSE, index |-> st.index, documents |-> st.documents]
    ELSE IF docsFile.state = "corrupt"
    THEN [ok |-> FALSE,
          index |-> [exists |-> TRUE, entries |-> indexFile.data],
          documents |-> st.documents]
    ELSE [ok |-> TRUE,
          index |-> [exists |-> TRUE, entries |-> indexFile.data],
          documents |-> docsFile.data]

\* load()
CallLoad ==
    /\ LET loaded == LoadStore(Store, diskIndex, diskDocs)
       IN  /\ index' = loaded.index
           /\ documents' = loaded.documents
           /\ vsLast' = Call("load", loaded.ok)
    /\ vsTopK' = 0
    /\ vsResult' = <<>>
    /\ UNCHANGED <<diskIndex, diskDocs, vsAdded, vsSaved, vsPaired, vsCrashed>>
    /\ CallFrame

\* search(query_embedding, top_k)
CallSearch(top_k) ==
    /\ vsLast' = Call("search", TRUE)
    /\ vsTopK' = top_k
    /\ vsResult' = SearchWithScores(Store, top_k)
    /\ UNCHANGED <<storeVars, vsAdded, vsSaved, vsPaired, vsCrashed>>
    /\ CallFrame

CallNext ==
    \/ NewInstance
    \/ \E ok \in BOOLEAN : CallCreateIndex(ok)
    \/ \E size \in BatchSizes, ok \in BOOLEAN : CallAddDocuments(size, ok)
    \/ CallClear
    \/ \E outcome \in {"ok", "index_raises", "docs_raises"} : CallSave(outcome)
    \/ CrashInSave
    \/ CallLoad
    \/ \E top_k \in TopKs : CallSearch(top_k)

(***************************************************************************)
(* LocalSearch.search (src/retrieval/local_search.py): embed the query,    *)
(* search the vector store, keep the results at or above the similarity    *)
(* threshold.  Scores are in hundredths.                                   *)
(***************************************************************************)
\* config.similarity_threshold: 0.3
SimilarityThreshold == 30

\* the scores of the model's hits: just below, at and just above the threshold
HitScores ==
    {SimilarityThreshold - 1, SimilarityThreshold, SimilarityThreshold + 1}

\* a (doc, score) pair of VectorStore.search
Hits == [doc : 1..MaxDocs, score : HitScores]

\* the lists VectorStore.search can return: most similar first
HitLists ==
    {hits \in SeqsUpTo(Hits, MaxHits) :
        \A i, j \in 1..Len(hits) : i < j => hits[i].score >= hits[j].score}

\* a variant of AboveThreshold, to test the properties that depend on it:
\* a score equal to the threshold is dropped
StrictlyAboveThreshold(score) == score > SimilarityThreshold

\* if score >= self.similarity_threshold
AboveThreshold(score) == score >= SimilarityThreshold

\* the result dict built for a kept (doc, score) pair
LocalResult(hit) ==
    [text |-> hit.doc, source |-> "local", similarity_score |-> hit.score]

\* the loop over results: filtered_results
RECURSIVE FilteredResults(_)
FilteredResults(results) ==
    IF results = <<>> THEN <<>>
    ELSE (IF AboveThreshold(Head(results).score)
          THEN <<LocalResult(Head(results))>>
          ELSE <<>>) \o FilteredResults(Tail(results))

\* the variables of the other subsystems
LocalFrame ==
    UNCHANGED <<rankVars, storeVars, buildVars, cacheVars, listenVars, editVars, suggestVars, callVars, lookupVars, startVars, queryVars, chunkVars, contextVars, replaceVars, overlayVars>>

LocalInit ==
    /\ lsHits \in HitLists
    /\ lsPc = "input"
    /\ lsSearched = FALSE
    /\ lsRet = <<>>

LocalIdle ==
    /\ lsHits = <<>>
    /\ lsPc = "input"
    /\ lsSearched = FALSE
    /\ lsRet = <<>>

\* LocalSearch.search(query, top_k): blank is "not query or not query.strip()",
\* raises is encode_single raising, which the method's own handler turns
\* into the empty list
LocalSearchSearch(blank, raises) ==
    /\ lsPc = "input"
    /\ lsPc' = "returned"
    /\ lsSearched' = (~blank /\ ~raises)
    /\ lsRet' = IF blank \/ raises THEN <<>> ELSE FilteredResults(lsHits)
    /\ UNCHANGED lsHits
    /\ LocalFrame

\* the caller drops the list and prepares the next call
LocalSearchReturn ==
    /\ lsPc = "returned"
    /\ lsPc' = "input"
    /\ lsSearched' = FALSE
    /\ lsRet' = <<>>
    /\ UNCHANGED lsHits
    /\ LocalFrame

LocalNext ==
    \/ \E blank, raises \in BOOLEAN : LocalSearchSearch(blank, raises)
    \/ LocalSearchReturn

(***************************************************************************)
(* OnlineSearch._search_wikipedia (src/retrieval/online_search.py): ask    *)
(* for titles, fetch the page of each of the first max_results titles.     *)
(* What fetching a title does:                                             *)
(*   ok              wikipedia.page returns the page;                      *)
(*   not_found       it raises PageError;                                  *)
(*   error           it raises another exception;                          *)
(*   ambiguous_ok    it raises DisambiguationError and the page of the     *)
(*                   first option is fetched;                              *)
(*   ambiguous_fail  it raises DisambiguationError and fetching the first  *)
(*                   option raises;                                        *)
(*   ambiguous_none  it raises DisambiguationError without options.        *)
(* A title is its position in search_results.                              *)
(***************************************************************************)
TitleOutcomes ==
    {"ok", "not_found", "error", "ambiguous_ok", "ambiguous_fail", "ambiguous_none"}

\* the result dict of a fetched page: of the title itself, or of the first
\* disambiguation option of the title
TitleResult(title, option) == [title |-> title, option |-> option]

\* a variant of CaughtPerTitle, to test the properties that depend on it:
\* only PageError has a handler inside the loop
CaughtPageErrorOnly(outcome) == outcome = "not_found"

\* the failures of one title that the handlers inside the loop catch: the
\* retry's `except Exception`, `except PageError`, `except Exception`
CaughtPerTitle(outcome) == outcome \in {"ambiguous_fail", "not_found", "error"}

\* the loop `for title in search_results[:self.max_results]` from title
\* number `title` on: the results appended, and whether an exception left
\* the loop
RECURSIVE FetchTitles(_, _, _)
FetchTitles(outcomes, title, last) ==
    IF title > last THEN [raised |-> FALSE, results |-> <<>>]
    ELSE LET outcome == outcomes[title]
             rest == FetchTitles(outcomes, title + 1, last)
         IN  CASE outcome = "ok" ->
                    [rest EXCEPT !.results = <<TitleResult(title, FALSE)>> \o @]
               [] outcome = "ambiguous_ok" ->
                    [rest EXCEPT !.results = <<TitleResult(title, TRUE)>> \o @]
               [] outcome = "ambiguous_none" -> rest
               [] OTHER ->
                    IF CaughtPerTitle(outcome) THEN rest
                    ELSE [raised |-> TRUE, results |-> <<>>]

\* _search_wikipedia: the outer `except Exception` returns []
SearchWikipedia(outcomes, max_results, search_raises) ==
    LET fetched == FetchTitles(outcomes, 1, Min(Len(outcomes), max_results))
    IN  [raised |-> FALSE,
         results |-> IF search_raises \/ fetched.raised THEN <<>>
                     ELSE fetched.results]

NothingReturned == [raised |-> FALSE, results |-> <<>>]

\* the variables of the other subsystems
LookupFrame ==
    UNCHANGED <<rankVars, storeVars, buildVars, cacheVars, listenVars, editVars, suggestVars, localVars, callVars, startVars, queryVars, chunkVars, contextVars, replaceVars, overlayVars>>

LookupInit ==
    /\ wkTitles \in SeqsUpTo(TitleOutcomes, MaxTitles)
    /\ wkMax \in 0..MaxTitles
    /\ wkPc = "input"
    /\ wkSearched = FALSE
    /\ wkRet = NothingReturned

LookupIdle ==
    /\ wkTitles = <<>>
    /\ wkMax = 0
    /\ wkPc = "input"
    /\ wkSearched = FALSE
    /\ wkRet = NothingReturned

\* _search_wikipedia(query); search_raises is wikipedia.search raising
LookupCall(search_raises) ==
    /\ wkPc = "input"
    /\ wkPc' = "returned"
    /\ wkSearched' = ~search_raises
    /\ wkRet' = SearchWikipedia(wkTitles, wkMax, search_raises)
    /\ UNCHANGED <<wkTitles, wkMax>>
    /\ LookupFrame

\* the caller takes the list and prepares the next call
LookupReturn ==
    /\ wkPc = "returned"
    /\ wkPc' = "input"
    /\ wkSearched' = FALSE
    /\ wkRet' = NothingReturned
    /\ UNCHANGED <<wkTitles, wkMax>>
    /\ LookupFrame

LookupNext ==
    \/ \E search_raises \in BOOLEAN : LookupCall(search_raises)
    \/ LookupReturn

(***************************************************************************)
(* Startup and the vector dimensions (src/app_controller.py,               *)
(* src/embeddings/vector_store.py).  The embedder's dimension comes from   *)
(* the configured model, the index's from config.vector_dimension          *)
(* (create_index) or from the persisted index file (load).  FAISS rejects  *)
(* vectors of another dimension than the index's with an exception.        *)
(***************************************************************************)
Dims == {1, 2, 3}

\* the variables of the other subsystems
StartFrame ==
    UNCHANGED <<rankVars, storeVars, buildVars, cacheVars, listenVars, editVars, suggestVars, localVars, callVars, lookupVars, queryVars, chunkVars, contextVars, replaceVars, overlayVars>>

\* a configuration, on a machine where nothing is persisted yet
StartInit ==
    /\ emDim \in Dims
    /\ cfgDim \in Dims
    /\ fileDim = 0
    /\ auInit = "no"
    /\ idxDim = 0
    /\ idxFilled = FALSE
    /\ auServed = "none"

StartIdle ==
    /\ emDim = 1
    /\ cfgDim = 1
    /\ fileDim = 0
    /\ auInit = "no"
    /\ idxDim = 0
    /\ idxFilled = FALSE
    /\ auServed = "none"

\* ApplicationController.initialize: load the model (an error returns
\* False), construct the VectorStore, load() the persisted index or else
\* create_index(), construct the other components, return True
Initialize(model_loads) ==
    /\ auInit = "no"
    /\ IF model_loads
       THEN /\ auInit' = "ok"
            /\ idxDim' = IF fileDim # 0 THEN fileDim ELSE cfgDim
            /\ idxFilled' = (fileDim # 0)
       ELSE /\ auInit' = "failed"
            /\ UNCHANGED <<idxDim, idxFilled>>
    /\ UNCHANGED <<emDim, cfgDim, fileDim, auServed>>
    /\ StartFrame

\* index_documents on a folder with a readable document: encode, clear(),
\* create_index(), add_documents (FAISS raises on vectors of another
\* dimension: index_documents returns False), save()
AddAfterStartup ==
    /\ auInit = "ok"
    /\ idxDim' = cfgDim
    /\ IF emDim = cfgDim
       THEN /\ idxFilled' = TRUE
            /\ fileDim' = cfgDim
            /\ auServed' = "add_ok"
       ELSE /\ idxFilled' = FALSE
            /\ UNCHANGED fileDim
            /\ auServed' = "add_raised"
    /\ UNCHANGED <<emDim, cfgDim, auInit>>
    /\ StartFrame

\* LocalSearch.search: encode the query, VectorStore.search (which returns
\* [] on an empty store and on the exception FAISS raises on a query of
\* another dimension)
SearchAfterStartup ==
    /\ auInit = "ok"
    /\ auServed' = IF ~idxFilled THEN "search_empty"
                   ELSE IF emDim # idxDim THEN "search_raised"
                   ELSE "search_ok"
    /\ UNCHANGED <<emDim, cfgDim, fileDim, auInit, idxDim, idxFilled>>
    /\ StartFrame

\* the application is closed and started again; the configuration may have
\* been edited in between
Restart ==
    /\ auInit # "no"
    /\ auInit' = "no"
    /\ idxDim' = 0
    /\ idxFilled' = FALSE
    /\ auServed' = "none"
    /\ emDim' \in Dims
    /\ cfgDim' \in Dims
    /\ UNCHANGED fileDim
    /\ StartFrame

StartNext ==
    \/ \E model_loads \in BOOLEAN : Initialize(model_loads)
    \/ AddAfterStartup
    \/ SearchAfterStartup
    \/ Restart

(***************************************************************************)
(* Autocomplete._extract_query (src/suggestion/autocomplete.py).  A string *)
(* is a sequence of one-character strings.                                 *)
(***************************************************************************)
QueryChars == {"a", ".", "!", "?", " ", "\n"}

\* the characters str.strip() removes
Whitespace == {" ", "\n"}

\* for delimiter in ['. ', '! ', '? ', '\n'], in this order
Delimiters == << <<".", " ">>, <<"!", " ">>, <<"?", " ">>, <<"\n">> >>

\* Python's str.strip()
RECURSIVE StripText(_)
StripText(text) ==
    IF text = <<>> THEN text
    ELSE IF Head(text) \in Whitespace THEN StripText(Tail(text))
    ELSE IF text[Len(text)] \in Whitespace THEN StripText(SubSeq(text, 1, Len(text) - 1))
    ELSE text

\* the positions at which delimiter occurs in text
Occurrences(delimiter, text) ==
    {k \in 1..(Len(text) - Len(delimiter) + 1) :
        SubSeq(text, k, k + Len(delimiter) - 1) = delimiter}

\* Python's  delimiter in text
OccursIn(delimiter, text) == Occurrences(delimiter, text) # {}

\* text.split(delimiter)[-1] when delimiter occurs: what follows its last occurrence
LastPart(text, delimiter) ==
    LET k == CHOOSE i \in Occurrences(delimiter, text) :
                 \A j \in Occurrences(delimiter, text) : j <= i
    IN  SubSeq(text, k + Len(delimiter), Len(text))

\* context[-self.context_window:]
LastChars(context, window) ==
    IF window = 0 \/ window >= Len(context) THEN context
    ELSE SubSeq(context, Len(context) - window + 1, Len(context))

\* the loop over the delimiters from the i-th on: the first delimiter that
\* occurs and has a non-blank last part decides, and the loop breaks
RECURSIVE FromDelimiter(_, _)
FromDelimiter(query, i) ==
    IF i > Len(Delimiters) THEN query
    ELSE IF /\ OccursIn(Delimiters[i], query)
            /\ StripText(LastPart(query, Delimiters[i])) # <<>>
         THEN StripText(LastPart(query, Delimiters[i]))
         ELSE FromDelimiter(query, i + 1)

\* _extract_query(context)
ExtractQuery(context, window) == FromDelimiter(StripText(LastChars(context, window)), 1)

\* the variables of the other subsystems
QueryFrame ==
    UNCHANGED <<rankVars, storeVars, buildVars, cacheVars, listenVars, editVars, suggestVars, localVars, callVars, lookupVars, startVars, chunkVars, contextVars, replaceVars, overlayVars>>

QueryInit ==
    /\ xqContext \in SeqsUpTo(QueryChars, MaxContext)
    /\ xqWindow \in 1..MaxContext
    /\ xqQuery = <<>>
    /\ xqPc = "input"

QueryIdle ==
    /\ xqContext = <<>>
    /\ xqWindow = 1
    /\ xqQuery = <<>>
    /\ xqPc = "input"

\* query = self._extract_query(context)
ExtractQueryCall ==
    /\ xqPc = "input"
    /\ xqQuery' = ExtractQuery(xqContext, xqWindow)
    /\ xqPc' = "done"
    /\ UNCHANGED <<xqContext, xqWindow>>
    /\ QueryFrame

QueryNext == ExtractQueryCall

(***************************************************************************)
(* TextChunker.chunk_text (src/ingestion/chunker.py).  A text is a         *)
(* sequence of one-character strings.  A chunk carries, next to the keys   *)
(* of the dictionary _create_chunk builds, three history fields: the text  *)
(* before strip(), whether it is a slice of _force_split, and how many of  *)
(* its leading characters repeat the end of the chunk before it.           *)
(***************************************************************************)
ChunkChars == {"a", ".", "\n"}

\* the values of chunk_size; overlap is any of 0 .. chunk_size - 1.  As with
\* the configured 512, the separators " " and "\n\n" put between buffered
\* units are no longer than half a chunk_size.
ChunkSizes == {4}

\* [.!?] of sentence_pattern
Terminators == {".", "!", "?"}

\* the end of the whitespace run that starts at i: \s* and \s+ are greedy
RECURSIVE RunEnd(_, _)
RunEnd(text, i) ==
    IF i > Len(text) \/ text[i] \notin Whitespace THEN i ELSE RunEnd(text, i + 1)

\* whether a pattern matches in the whitespace run text[i..j-1]:
\* paragraph_pattern \n\s*\n matches from the run's first newline to its last
\* when it has two; sentence_pattern (?<=[.!?])\s+ matches the run that
\* follows a terminator
IsSeparator(pattern, text, i, j) ==
    IF pattern = "paragraph"
    THEN Cardinality({k \in i..(j - 1) : text[k] = "\n"}) >= 2
    ELSE i > 1 /\ text[i - 1] \in Terminators

\* pattern.split(text) from position i on; what a match leaves of its run
\* is whitespace at the end of a part, which the callers strip
RECURSIVE SplitFrom(_, _, _, _, _)
SplitFrom(pattern, text, i, part, parts) ==
    IF i > Len(text) THEN Append(parts, part)
    ELSE IF text[i] \in Whitespace
         THEN LET j == RunEnd(text, i)
              IN  IF IsSeparator(pattern, text, i, j)
                  THEN SplitFrom(pattern, text, j, <<>>, Append(parts, part))
                  ELSE SplitFrom(pattern, text, j, part \o SubSeq(text, i, j - 1), parts)
         ELSE SplitFrom(pattern, text, i + 1, Append(part, text[i]), parts)

\* [p.strip() for p in pattern.split(text) if p.strip()]
SplitParts(pattern, text) ==
    LET parts == SplitFrom(pattern, text, 1, <<>>, <<>>)
    IN  SelectSeq([k \in 1..Len(parts) |-> StripText(parts[k])], LAMBDA p : p # <<>>)

\* _create_chunk(text, index, metadata) without the metadata keys
CreateChunk(text, chunk_index, forced, repeated) ==
    [text |-> StripText(text), chunk_index |-> chunk_index, char_count |-> Len(text),
     raw |-> text, forced |-> forced, repeated |-> repeated]

\* _get_overlap(text)
GetOverlap(text, overlap) ==
    IF Len(text) <= overlap THEN text
    ELSE SubSeq(text, Len(text) - overlap + 1, Len(text))

\* _force_split(text): the slices text[i:i + chunk_size] for i in
\* range(0, len(text), chunk_size - overlap)
ForceSplit(text, size, overlap) ==
    LET step == size - overlap
        count == (Len(text) + step - 1) \div step
    IN  [k \in 1..count |->
            SubSeq(text, (k - 1) * step + 1, Min((k - 1) * step + size, Len(text)))]

\* chunks.append(self._create_chunk(forced_chunk, chunk_index, metadata)) for
\* every slice from the k-th on
RECURSIVE AppendForced(_, _, _, _)
AppendForced(chunks, slices, k, overlap) ==
    IF k > Len(slices) THEN chunks
    ELSE AppendForced(
             Append(chunks,
                    CreateChunk(slices[k], Len(chunks), TRUE,
                                IF k = 1 THEN 0 ELSE Min(overlap, Len(slices[k])))),
             slices, k + 1, overlap)

\* "Add sentence to current chunk" and "Add paragraph to current chunk": the
\* same statements, with " " and "\n\n" between the units
AddToCurrent(st, unit, between, size, overlap) ==
    IF Len(st.current) + Len(unit) > size
    THEN IF st.current # <<>>
         THEN [chunks |-> Append(st.chunks,
                                 CreateChunk(st.current, Len(st.chunks), FALSE,
                                             st.repeated)),
               current |-> GetOverlap(st.current, overlap) \o unit,
               repeated |-> Len(GetOverlap(st.current, overlap))]
         ELSE [st EXCEPT !.current = unit]
    ELSE [st EXCEPT !.current = IF st.current # <<>> THEN st.current \o between \o unit
                                 ELSE unit]

\* for sentence in sentences, from the k-th on
RECURSIVE AddSentences(_, _, _, _, _)
AddSentences(st, sentences, k, size, overlap) ==
    IF k > Len(sentences) THEN st
    ELSE AddSentences(
             IF 2 * Len(sentences[k]) > 3 * size
             THEN [st EXCEPT !.chunks =
                      AppendForced(st.chunks, ForceSplit(sentences[k], size, overlap),
                                   1, overlap)]
             ELSE AddToCurrent(st, sentences[k], <<" ">>, size, overlap),
             sentences, k + 1, size, overlap)

\* for paragraph in paragraphs, from the k-th on
RECURSIVE AddParagraphs(_, _, _, _, _)
AddParagraphs(st, paragraphs, k, size, overlap) ==
    IF k > Len(paragraphs) THEN st
    ELSE AddParagraphs(
             IF Len(paragraphs[k]) > size
             THEN AddSentences(st, SplitParts("sentence", paragraphs[k]), 1, size, overlap)
             ELSE AddToCurrent(st, paragraphs[k], <<"\n", "\n">>, size, overlap),
             paragraphs, k + 1, size, overlap)

\* chunk_text(text)
ChunkText(text, size, overlap) ==
    IF StripText(text) = <<>> THEN <<>>
    ELSE LET st == AddParagraphs([chunks |-> <<>>, current |-> <<>>, repeated |-> 0],
                                 SplitParts("paragraph", text), 1, size, overlap)
         IN  IF st.current # <<>>
             THEN Append(st.chunks,
                         CreateChunk(st.current, Len(st.chunks), FALSE, st.repeated))
             ELSE st.chunks

\* the variables of the other subsystems
ChunkFrame ==
    UNCHANGED <<rankVars, storeVars, buildVars, cacheVars, listenVars, editVars, suggestVars, localVars, callVars, lookupVars, startVars, queryVars, contextVars, replaceVars, overlayVars>>

ChunkInit ==
    /\ ckText \in SeqsUpTo(ChunkChars, MaxChunked)
    /\ ckSize \in ChunkSizes
    /\ ckOverlap \in 0..(ckSize - 1)
    /\ ckChunks = <<>>
    /\ ckPc = "input"

ChunkIdle ==
    /\ ckText = <<>>
    /\ ckSize = 4
    /\ ckOverlap = 0
    /\ ckChunks = <<>>
    /\ ckPc = "input"

\* chunks = self.chunker.chunk_text(text, metadata)
ChunkTextCall ==
    /\ ckPc = "input"
    /\ ckChunks' = ChunkText(ckText, ckSize, ckOverlap)
    /\ ckPc' = "done"
    /\ UNCHANGED <<ckText, ckSize, ckOverlap>>
    /\ ChunkFrame

ChunkNext == ChunkTextCall

(***************************************************************************)
(* LocalSearch.get_context (src/retrieval/local_search.py) and             *)
(* Ranker.get_best_context (src/retrieval/ranker.py).  Both decide by the  *)
(* lengths of the texts only, so a text is its length; a part of the       *)
(* context records the result it is taken from.                            *)
(***************************************************************************)
\* config.max_context_length
MaxContextLength == 1500

\* if remaining > 100
MeaningfulRemaining == 100

\* len("\n\n") and len("\n\n---\n\n")
LocalSeparator == 2
RankerSeparator == 7

\* the lengths of the texts, and the max_length arguments (0: None or 0)
TextLengths == {50, 100, 101, 150, 250}
MaxLengths == {0, 150, 200, 201}

\* max_length = max_length or config.max_context_length
EffectiveMax(max_length) == IF max_length = 0 THEN MaxContextLength ELSE max_length

\* for result in results, from the k-th on: a text that fits is appended
\* whole; the first that does not fit is cut to the remaining length or
\* dropped, and the loop breaks
RECURSIVE ContextParts(_, _, _, _, _)
ContextParts(texts, max_length, k, context_parts, current_length) ==
    IF k > Len(texts) THEN context_parts
    ELSE IF current_length + texts[k] <= max_length
         THEN ContextParts(texts, max_length, k + 1,
                           Append(context_parts, [result |-> k, length |-> texts[k]]),
                           current_length + texts[k])
         ELSE LET remaining == max_length - current_length
              IN  IF remaining > MeaningfulRemaining
                  THEN Append(context_parts,
                              [result |-> k, length |-> Min(remaining, texts[k])])
                  ELSE context_parts

RECURSIVE TotalLength(_, _)
TotalLength(context_parts, k) ==
    IF k > Len(context_parts) THEN 0
    ELSE context_parts[k].length + TotalLength(context_parts, k + 1)

\* len(separator.join(context_parts))
JoinedLength(context_parts, separator) ==
    IF context_parts = <<>> THEN 0
    ELSE TotalLength(context_parts, 1) + separator * (Len(context_parts) - 1)

\* the variables of the other subsystems
ContextFrame ==
    UNCHANGED <<rankVars, storeVars, buildVars, cacheVars, listenVars, editVars, suggestVars, localVars, callVars, lookupVars, startVars, queryVars, chunkVars, replaceVars, overlayVars>>

ContextInit ==
    /\ gcTexts \in SeqsUpTo(TextLengths, MaxParts)
    /\ gcMax \in MaxLengths
    /\ gcParts = <<>>
    /\ gcLength = 0
    /\ gcPc = "input"

ContextIdle ==
    /\ gcTexts = <<>>
    /\ gcMax = 0
    /\ gcParts = <<>>
    /\ gcLength = 0
    /\ gcPc = "input"

\* LocalSearch.get_context(query, max_length), results being what
\* self.search(query) returns
GetContext ==
    /\ gcPc = "input"
    /\ gcParts' = ContextParts(gcTexts, EffectiveMax(gcMax), 1, <<>>, 0)
    /\ gcLength' = JoinedLength(gcParts', LocalSeparator)
    /\ gcPc' = "local"
    /\ UNCHANGED <<gcTexts, gcMax>>
    /\ ContextFrame

\* Ranker.get_best_context(results, max_length)
GetBestContext ==
    /\ gcPc = "input"
    /\ gcParts' = ContextParts(gcTexts, EffectiveMax(gcMax), 1, <<>>, 0)
    /\ gcLength' = JoinedLength(gcParts', RankerSeparator)
    /\ gcPc' = "ranker"
    /\ UNCHANGED <<gcTexts, gcMax>>
    /\ ContextFrame

ContextNext == GetContext \/ GetBestContext

\* results that carry the length of their text, for a ranking whose merged
\* list is handed to get_best_context
RankedLengths == {100, 101, 150}

LocalTexts == [source : {"local"}, similarity_score : Scores,
               is_fallback : {FALSE}, length : RankedLengths]

RemoteTexts == [source : {"wikipedia"}, similarity_score : Scores,
                is_fallback : {FALSE}, length : RankedLengths]

RankedInit ==
    /\ rkLocal \in SeqsUpTo(LocalTexts, MaxResults)
    /\ rkRemote \in SeqsUpTo(RemoteTexts, MaxResults)
    /\ rkRanked = <<>>
    /\ rkPc = "input"
    /\ gcTexts = <<>>
    /\ gcMax \in MaxLengths
    /\ gcParts = <<>>
    /\ gcLength = 0
    /\ gcPc = "input"

\* get_best_context(ranked, max_length) on the list rank_results returned
GetBestContextOfRanked ==
    /\ rkPc = "ranked"
    /\ gcPc = "input"
    /\ gcTexts' = [k \in 1..Len(rkRanked) |-> rkRanked[k].length]
    /\ gcParts' = ContextParts(gcTexts', EffectiveMax(gcMax), 1, <<>>, 0)
    /\ gcLength' = JoinedLength(gcParts', RankerSeparator)
    /\ gcPc' = "ranker"
    /\ UNCHANGED gcMax
    /\ ContextFrame

RankedNext == RankCall \/ GetBestContextOfRanked

(***************************************************************************)
(* TextReplacer.get_alternatives (src/suggestion/text_replacer.py).  The   *)
(* texts are sequences of characters built from a few phrases, long ones   *)
(* of more than ten characters and a short one, with or without a final    *)
(* full stop, alone or two joined by ". ".                                 *)
(***************************************************************************)
\* len(sentence) > 10
MinAlternative == 10

Phrases ==
    {[i \in 1..(MinAlternative + 1) |-> "a"],
     [i \in 1..(MinAlternative + 1) |-> IF i = 1 THEN "A" ELSE "a"],
     <<"b">>}

Sentences == {phrase \o stop : phrase \in Phrases, stop \in {<<>>, <<".">>}}

SimilarTexts ==
    {<<>>} \cup Sentences \cup
    {first \o <<".", " ">> \o second : first \in Sentences, second \in Sentences}

\* Python's str.lower()
Lower(text) == [i \in 1..Len(text) |-> IF text[i] = "A" THEN "a" ELSE text[i]]

\* text.split('. ') from position i on
RECURSIVE SplitOnStop(_, _, _, _)
SplitOnStop(text, i, part, parts) ==
    IF i > Len(text) THEN Append(parts, part)
    ELSE IF i < Len(text) /\ text[i] = "." /\ text[i + 1] = " "
         THEN SplitOnStop(text, i + 2, <<>>, Append(parts, part))
         ELSE SplitOnStop(text, i + 1, Append(part, text[i]), parts)

\* the loop of _extract_alternative from the k-th sentence on; <<>> is None
RECURSIVE FirstAlternative(_, _, _)
FirstAlternative(sentences, original, k) ==
    IF k > Len(sentences) THEN <<>>
    ELSE IF Lower(sentences[k]) # Lower(original) /\ Len(sentences[k]) > MinAlternative
         THEN IF sentences[k][Len(sentences[k])] # "."
              THEN Append(sentences[k], ".")
              ELSE sentences[k]
         ELSE FirstAlternative(sentences, original, k + 1)

\* _extract_alternative(text, original)
ExtractAlternative(text, original) ==
    LET parts == SplitOnStop(text, 1, <<>>, <<>>)
        sentences == SelectSeq([k \in 1..Len(parts) |-> StripText(parts[k])],
                               LAMBDA part : part # <<>>)
    IN  FirstAlternative(sentences, original, 1)

\* for result in local_results[:num_alternatives], from the k-th on
RECURSIVE Alternatives(_, _, _, _)
Alternatives(results, selected_text, k, alternatives) ==
    IF k > Len(results) THEN alternatives
    ELSE LET text == results[k]
             alt == ExtractAlternative(text, selected_text)
         IN  Alternatives(results, selected_text, k + 1,
                          IF /\ text # <<>>
                             /\ text # selected_text
                             /\ alt # <<>>
                             /\ ~InSeq(alt, alternatives)
                          THEN Append(alternatives, alt)
                          ELSE alternatives)

\* the variables of the other subsystems
ReplaceFrame ==
    UNCHANGED <<rankVars, storeVars, buildVars, cacheVars, listenVars, editVars, suggestVars, localVars, callVars, lookupVars, startVars, queryVars, chunkVars, contextVars, overlayVars>>

ReplaceInit ==
    /\ trSelected \in Sentences
    /\ trCount \in 0..MaxSimilar
    /\ trResults \in SeqsUpTo(SimilarTexts, MaxSimilar)
    /\ trRet = <<>>
    /\ trPc = "input"

ReplaceIdle ==
    /\ trSelected = <<"b">>
    /\ trCount = 0
    /\ trResults = <<>>
    /\ trRet = <<>>
    /\ trPc = "input"

\* get_alternatives(selected_text, num_alternatives); an exception of the
\* search is caught and [] returned
GetAlternatives(raises) ==
    /\ trPc = "input"
    /\ trRet' = IF raises THEN <<>>
                ELSE Alternatives(Take(trResults, trCount), trSelected, 1, <<>>)
    /\ trPc' = IF raises THEN "caught" ELSE "done"
    /\ UNCHANGED <<trSelected, trCount, trResults>>
    /\ ReplaceFrame

ReplaceNext == \E raises \in BOOLEAN : GetAlternatives(raises)

(***************************************************************************)
(* SuggestionOverlay (src/src/suggestion_overlay.py): the list of          *)
(* suggestions on display, the index of the current one and the visible    *)
(* flag.  A suggestion is a sequence of characters.                        *)
(***************************************************************************)
\* the strings a caller may hand over: empty, blank, plain, padded
OverlayStrings ==
    {<<>>, <<" ">>, <<"\n", " ">>, <<"a">>, <<" ", "b">>, <<"c", " ">>}

\* not s.strip()
BlankSuggestion(s) == StripText(s) = <<>>

\* nothing emitted by the call
NoSignal == [signal |-> "none", text |-> <<>>]

\* the variables of the other subsystems
OverlayFrame ==
    UNCHANGED <<rankVars, storeVars, buildVars, cacheVars, listenVars, editVars, suggestVars, localVars, callVars, lookupVars, startVars, queryVars, chunkVars, contextVars, replaceVars>>

\* __init__
OverlayInit ==
    /\ soSuggestions = <<>>
    /\ soIndex = 0
    /\ soVisible = FALSE
    /\ soLast = [op |-> "init", emitted |-> NoSignal]

OverlayIdle == OverlayInit

\* the assignments of hide_suggestions
Hidden ==
    /\ soVisible' = FALSE
    /\ soSuggestions' = <<>>
    /\ soIndex' = 0

\* hide_suggestions()
HideSuggestions ==
    /\ Hidden
    /\ soLast' = [op |-> "hide", emitted |-> NoSignal]
    /\ OverlayFrame

\* show_suggestions(suggestions): an empty or all-blank list hides the overlay;
\* otherwise the blank entries are dropped and the first suggestion is shown
ShowSuggestions(suggestions) ==
    /\ IF suggestions = <<>> \/ \A i \in 1..Len(suggestions) : BlankSuggestion(suggestions[i])
       THEN Hidden
       ELSE LET kept == SelectSeq(suggestions, LAMBDA s : ~BlankSuggestion(s))
            IN  IF kept = <<>>
                THEN Hidden
                ELSE /\ soSuggestions' = kept
                     /\ soIndex' = 0
                     /\ soVisible' = TRUE
    /\ soLast' = [op |-> "show", emitted |-> NoSignal]
    /\ OverlayFrame

\* a variant of IndexAfterPrevious, to test the properties that depend on it: the
\* index stops at the first suggestion
IndexAfterPreviousClamped(suggestions, current_index) ==
    IF Len(suggestions) > 1
    THEN IF current_index > 0 THEN current_index - 1 ELSE 0
    ELSE current_index

\* current_index after next_suggestion
IndexAfterNext(suggestions, current_index) ==
    IF Len(suggestions) > 1
    THEN (current_index + 1) % Len(suggestions)
    ELSE current_index

\* current_index after previous_suggestion; Python's % of a negative number
\* by a positive one is not negative
IndexAfterPrevious(suggestions, current_index) ==
    IF Len(suggestions) > 1
    THEN (current_index - 1) % Len(suggestions)
    ELSE current_index

\* next_suggestion()
NextSuggestion ==
    /\ soIndex' = IndexAfterNext(soSuggestions, soIndex)
    /\ soLast' = [op |-> "next", emitted |-> NoSignal]
    /\ UNCHANGED <<soSuggestions, soVisible>>
    /\ OverlayFrame

\* previous_suggestion()
PreviousSuggestion ==
    /\ soIndex' = IndexAfterPrevious(soSuggestions, soIndex)
    /\ soLast' = [op |-> "previous", emitted |-> NoSignal]
    /\ UNCHANGED <<soSuggestions, soVisible>>
    /\ OverlayFrame

\* accept_current_suggestion(): emits the current suggestion and hides, when
\* there is one; otherwise nothing happens
AcceptCurrentSuggestion ==
    /\ IF soSuggestions # <<>> /\ soIndex < Len(soSuggestions)
       THEN /\ soLast' = [op |-> "accept",
                          emitted |-> [signal |-> "accepted", text |-> soSuggestions[soIndex + 1]]]
            /\ Hidden
       ELSE /\ soLast' = [op |-> "accept", emitted |-> NoSignal]
            /\ UNCHANGED <<soSuggestions, soIndex, soVisible>>
    /\ OverlayFrame

\* dismiss_suggestions(): emits dismissed and hides
DismissSuggestions ==
    /\ soLast' = [op |-> "dismiss", emitted |-> [signal |-> "dismissed", text |-> <<>>]]
    /\ Hidden
    /\ OverlayFrame

OverlayNext ==
    \/ \E suggestions \in SeqsUpTo(OverlayStrings, MaxShown) : ShowSuggestions(suggestions)
    \/ HideSuggestions
    \/ NextSuggestion
    \/ PreviousSuggestion
    \/ AcceptCurrentSuggestion
    \/ DismissSuggestions

(***************************************************************************)
(* Specifications, one per subsystem.                                      *)
(***************************************************************************)
InitRank == RankInit /\ IndexIdle /\ CacheIdle /\ ListenIdle /\ EditIdle /\ SuggestIdle /\ LocalIdle /\ CallIdle /\ LookupIdle /\ StartIdle /\ QueryIdle /\ ChunkIdle /\ ContextIdle /\ ReplaceIdle /\ OverlayIdle
NextRank == RankNext
SpecRank == InitRank /\ [][NextRank]_vars

InitIndex == IndexInit /\ RankIdle /\ CacheIdle /\ ListenIdle /\ EditIdle /\ SuggestIdle /\ LocalIdle /\ CallIdle /\ LookupIdle /\ StartIdle /\ QueryIdle /\ ChunkIdle /\ ContextIdle /\ ReplaceIdle /\ OverlayIdle
NextIndex == IndexNext
SpecIndex == InitIndex /\ [][NextIndex]_vars

\* the rebuilds with their scheduling: a started QThread runs every step of
\* run() it reaches, and the event loop of the GUI thread delivers every
\* emitted finished signal; the user's clicks and searches are not fair
IndexFairness ==
    \A t \in Threads :
        /\ WF_vars(ExtractDocuments(t))
        /\ WF_vars(Embed(t))
        /\ WF_vars(Clear(t))
        /\ WF_vars(CreateIndex(t))
        /\ WF_vars(AddWithIds(t))
        /\ WF_vars(ExtendDocuments(t))
        /\ WF_vars(SaveIndexFile(t))
        /\ WF_vars(SaveDocsFile(t))
        /\ WF_vars(OnIndexingFinished(t))
SpecIndexLive == InitIndex /\ [][NextIndex]_vars /\ IndexFairness

NextRebuild == RebuildNext
SpecRebuild == InitIndex /\ [][NextRebuild]_vars

InitCache == CacheInit /\ RankIdle /\ IndexIdle /\ ListenIdle /\ EditIdle /\ SuggestIdle /\ LocalIdle /\ CallIdle /\ LookupIdle /\ StartIdle /\ QueryIdle /\ ChunkIdle /\ ContextIdle /\ ReplaceIdle /\ OverlayIdle
NextCache == CacheNext
SpecCache == InitCache /\ [][NextCache]_vars

InitListen == ListenInit /\ RankIdle /\ IndexIdle /\ CacheIdle /\ EditIdle /\ SuggestIdle /\ LocalIdle /\ CallIdle /\ LookupIdle /\ StartIdle /\ QueryIdle /\ ChunkIdle /\ ContextIdle /\ ReplaceIdle /\ OverlayIdle
NextListen == ListenNext
SpecListen == InitListen /\ [][NextListen]_vars

InitEdit == EditInit /\ RankIdle /\ IndexBuilt /\ CacheIdle /\ ListenIdle /\ SuggestIdle /\ LocalIdle /\ CallIdle /\ LookupIdle /\ StartIdle /\ QueryIdle /\ ChunkIdle /\ ContextIdle /\ ReplaceIdle /\ OverlayIdle
NextEdit == EditNext
SpecEdit == InitEdit /\ [][NextEdit]_vars

\* time passes, and a single-shot timer whose interval has run out fires
EditFairness == WF_vars(EditorTick) /\ WF_vars(OnDebounceTimeout)
SpecEditLive == InitEdit /\ [][NextEdit]_vars /\ EditFairness

InitSuggest == SuggestInit /\ RankIdle /\ IndexIdle /\ CacheIdle /\ ListenIdle /\ EditIdle /\ LocalIdle /\ CallIdle /\ LookupIdle /\ StartIdle /\ QueryIdle /\ ChunkIdle /\ ContextIdle /\ ReplaceIdle /\ OverlayIdle
NextSuggest == SuggestNext
SpecSuggest == InitSuggest /\ [][NextSuggest]_vars

\* the suggestion request with its environment: the external source may never
\* answer.  The calling thread runs every statement it reaches, so each step
\* of get_suggestions is weakly fair; the start of a request and the answer
\* of the external source are not.
NextSuggestLive == SuggestNext \/ OnlineBlocks
SuggestFairness ==
    /\ WF_vars(SearchLocal)
    /\ WF_vars(Generate)
    /\ WF_vars(Template)
    /\ WF_vars(Online)
    /\ WF_vars(Return)
SpecSuggestLive == InitSuggest /\ [][NextSuggestLive]_vars /\ SuggestFairness

InitLocal == LocalInit /\ RankIdle /\ IndexIdle /\ CacheIdle /\ ListenIdle /\ EditIdle /\ SuggestIdle /\ CallIdle /\ LookupIdle /\ StartIdle /\ QueryIdle /\ ChunkIdle /\ ContextIdle /\ ReplaceIdle /\ OverlayIdle
NextLocal == LocalNext
SpecLocal == InitLocal /\ [][NextLocal]_vars

InitStore == CallInit /\ BuildIdle /\ RankIdle /\ CacheIdle /\ ListenIdle /\ EditIdle /\ SuggestIdle /\ LocalIdle /\ LookupIdle /\ StartIdle /\ QueryIdle /\ ChunkIdle /\ ContextIdle /\ ReplaceIdle /\ OverlayIdle
NextStore == CallNext
SpecStore == InitStore /\ [][NextStore]_vars

InitLookup == LookupInit /\ RankIdle /\ IndexIdle /\ CacheIdle /\ ListenIdle /\ EditIdle /\ SuggestIdle /\ LocalIdle /\ CallIdle /\ StartIdle /\ QueryIdle /\ ChunkIdle /\ ContextIdle /\ ReplaceIdle /\ OverlayIdle
NextLookup == LookupNext
SpecLookup == InitLookup /\ [][NextLookup]_vars

InitStart == StartInit /\ RankIdle /\ IndexIdle /\ CacheIdle /\ ListenIdle /\ EditIdle /\ SuggestIdle /\ LocalIdle /\ CallIdle /\ LookupIdle /\ QueryIdle /\ ChunkIdle /\ ContextIdle /\ ReplaceIdle /\ OverlayIdle
NextStart == StartNext
SpecStart == InitStart /\ [][NextStart]_vars

InitQuery == QueryInit /\ RankIdle /\ IndexIdle /\ CacheIdle /\ ListenIdle /\ EditIdle /\ SuggestIdle /\ LocalIdle /\ CallIdle /\ LookupIdle /\ StartIdle /\ ChunkIdle /\ ContextIdle /\ ReplaceIdle /\ OverlayIdle
NextQuery == QueryNext
SpecQuery == InitQuery /\ [][NextQuery]_vars

InitChunk == ChunkInit /\ RankIdle /\ IndexIdle /\ CacheIdle /\ ListenIdle /\ EditIdle /\ SuggestIdle /\ LocalIdle /\ CallIdle /\ LookupIdle /\ StartIdle /\ QueryIdle /\ ContextIdle /\ ReplaceIdle /\ OverlayIdle
NextChunk == ChunkNext
SpecChunk == InitChunk /\ [][NextChunk]_vars

InitContext == ContextInit /\ RankIdle /\ IndexIdle /\ CacheIdle /\ ListenIdle /\ EditIdle /\ SuggestIdle /\ LocalIdle /\ CallIdle /\ LookupIdle /\ StartIdle /\ QueryIdle /\ ChunkIdle /\ ReplaceIdle /\ OverlayIdle
NextContext == ContextNext
SpecContext == InitContext /\ [][NextContext]_vars

InitRanked == RankedInit /\ IndexIdle /\ CacheIdle /\ ListenIdle /\ EditIdle /\ SuggestIdle /\ LocalIdle /\ CallIdle /\ LookupIdle /\ StartIdle /\ QueryIdle /\ ChunkIdle /\ ReplaceIdle /\ OverlayIdle
NextRanked == RankedNext
SpecRanked == InitRanked /\ [][NextRanked]_vars

InitReplace == ReplaceInit /\ RankIdle /\ IndexIdle /\ CacheIdle /\ ListenIdle /\ EditIdle /\ SuggestIdle /\ LocalIdle /\ CallIdle /\ LookupIdle /\ StartIdle /\ QueryIdle /\ ChunkIdle /\ ContextIdle /\ OverlayIdle
NextReplace == ReplaceNext
SpecReplace == InitReplace /\ [][NextReplace]_vars

InitOverlay == OverlayInit /\ RankIdle /\ IndexIdle /\ CacheIdle /\ ListenIdle /\ EditIdle /\ SuggestIdle /\ LocalIdle /\ CallIdle /\ LookupIdle /\ StartIdle /\ QueryIdle /\ ChunkIdle /\ ContextIdle /\ ReplaceIdle
NextOverlay == OverlayNext
SpecOverlay == InitOverlay /\ [][NextOverlay]_vars

(***************************************************************************)
(* The claims.                                                             *)
(***************************************************************************)
\* C1: every entry taken from the local list sits at a lower position in the
\* merged output than every entry taken from the remote list, whatever the
\* scores: the output is the local list, in order, followed by the remote
\* entries, in order.
C1_LocalBeforeRemote ==
    rkPc = "ranked" =>
        /\ Len(rkRanked) = Len(rkLocal) + Len(rkRemote)
        /\ \A i \in 1..Len(rkLocal) : rkRanked[i] = rkLocal[i]
        /\ \A j \in 1..Len(rkRemote) : rkRanked[Len(rkLocal) + j] = rkRemote[j]
        /\ \A i, j \in 1..Len(rkRanked) :
              (rkRanked[i].source = "local" /\ rkRanked[j].source # "local")
                  => i < j

\* a remote entry with a higher score than a local one was merged after it
C1_Witness ==
    /\ rkPc = "ranked"
    /\ Len(rkLocal) > 0
    /\ Len(rkRemote) > 0
    /\ rkRanked[Len(rkRanked)].similarity_score > rkRanked[1].similarity_score

\* C2: when an index rebuild fails at any step (extraction, embedding, add or
\* save), the in-memory store still holds the generation that was live when
\* the rebuild started, and a search is answered from it.
C2_FailedRebuildKeepsPrevious ==
    \A t \in Threads :
        thPc[t] = "failed" =>
            /\ documents = thPrev[t].documents
            /\ VectorStoreSearch(Store, TopK) = VectorStoreSearch(thPrev[t], TopK)

\* C3: a search that runs beside a rebuild is answered from the complete
\* previous generation or from the complete new generation, never from an
\* intermediate content of the store.
C3_SearchSeesWholeGeneration ==
    [][\A t \in Threads :
          (srResult'.stamp # srResult.stamp /\ InProgress(t)) =>
              \/ srResult'.result = VectorStoreSearch(thPrev[t], TopK)
              \/ /\ thChunks[t] # <<>>
                 /\ srResult'.result = VectorStoreSearch(FullStore(thChunks[t]), TopK)]_vars

\* C4: at most one index rebuild is in progress at any time, whatever entry
\* point of the user interface the requests come from.
C4_AtMostOneRebuild ==
    Cardinality({t \in Threads : InProgress(t)}) <= 1

\* C5 as stated, for a caching instance and a non-blank query: two search
\* calls with the same query string and no clear_cache between them trigger
\* exactly one external fetch.
C5_TwoCallsOneFetch ==
    \A q \in CacheQueries :
        (cache_enabled /\ ~IsBlank(q) /\ osCalls[q] >= 2) => osFetches[q] = 1

\* C5 amended: with caching enabled, for a non-blank query whose first call
\* missed the cache and fetched a non-empty result list, any number of further
\* calls with no clear_cache between them trigger no further fetch; a first
\* call that fetched nothing is not cached, and the next call fetches again.
C5_OneFetchWhenResultsCached ==
    \A q \in CacheQueries :
        /\ (cache_enabled /\ ~IsBlank(q) /\ osCalls[q] >= 2 /\ osFirst[q] = "results")
               => osFetches[q] = 1
        /\ (~IsBlank(q) /\ osCalls[q] >= 2 /\ osFirst[q] = "empty")
               => osFetches[q] >= 2

\* the second call of a query whose first call cached its results has returned
C5_Witness ==
    \E q \in CacheQueries :
        /\ cache_enabled
        /\ ~IsBlank(q)
        /\ osCalls[q] = 2
        /\ osFirst[q] = "results"
        /\ osFetches[q] = 1
        /\ osPc = "ready"
        /\ osRet = cache[q].results

\* C6: after a crash at any point during _save_cache, the cache read at the
\* next start is the complete mapping the file held before the write or the
\* complete mapping that was being written.
C6_CrashDuringSaveKeepsOldOrNew ==
    osCrashed = "in_save" => cache \in {svOld, svNew}

\* C7, the listener half: KeystrokeListener starts a suggestion request only
\* when the debounce time has passed since the previous trigger, at least
\* trigger_threshold characters were appended since it and the key typed last
\* is a boundary character.
C7_ListenerTrigger ==
    ksFired.fired =>
        /\ ksFired.elapsed >= KsDebounce
        /\ ksFired.appended >= KsThreshold
        /\ ksFired.last \in BoundaryChars

\* C7: a suggestion request is triggered, by the keystroke listener and by the
\* editor alike, only when the debounce time has passed since the previous
\* trigger, at least trigger_threshold characters were typed since it and the
\* key typed last is a boundary character.
C7_TriggerNeedsAllThree ==
    /\ C7_ListenerTrigger
    /\ edFired.fired =>
          /\ edFired.elapsed >= EdDebounce
          /\ edFired.appended >= EdThreshold
          /\ edFired.last \in BoundaryChars

\* C8: the suggestions handed to the overlay are those of the most recently
\* issued request; the result of an older request that arrives after a newer
\* request was issued is not shown.
C8_LastRequestWins ==
    ovShown.req = ovShown.latest

\* C9: get_suggestions lets no exception through to its caller: whatever a
\* collaborator raises inside the request, the call returns a list, and the
\* empty list when the outer handler caught the exception.
C9_NeverPropagates ==
    sgPc = "done" =>
        /\ sgError = "none"
        /\ sgRet \in Seq(Texts)
        /\ sgCaught = "outer" => sgRet = <<>>

\* the online fallback raised after suggestions had been collected: the call
\* returned the empty list
C9_Witness ==
    /\ sgPc = "done"
    /\ sgCaught = "outer"
    /\ sgSuggestions # <<>>
    /\ sgRet = <<>>
    /\ sgError = "none"

\* C10: the list get_suggestions returns has at most num_suggestions elements
\* and no two equal strings.
C10_AtMostCountNoDuplicates ==
    sgPc = "done" =>
        /\ Len(sgRet) <= sgCount
        /\ NoDuplicates(sgRet)

\* two local results gave the same suggestion; it was returned once, beside
\* another suggestion, and the list is as long as the count allows
C10_Witness ==
    /\ sgPc = "done"
    /\ sgCount = 2
    /\ Len(sgLocal) = 2
    /\ sgLocal[1].derived = sgLocal[2].derived
    /\ Len(sgRet) = 2
    /\ sgRet[1] = sgLocal[1].derived

\* C11: the stages run in the order Generate, TemplateExtract, remote
\* fallback: online_search.search is invoked only when fewer than
\* num_suggestions suggestions exist after the first two stages, and in the
\* returned list every remote-derived suggestion comes after every generated
\* and every template suggestion.
C11_FallbackOrder ==
    /\ sgOnlineAt # -1 =>
          (sgPc \in {"return", "done", "idle"} /\ sgOnlineAt < sgCount)
    /\ sgPc = "done" =>
          \A i, j \in 1..Len(sgRet) :
              /\ (sgOrigins[i] = "remote" /\ sgOrigins[j] # "remote") => j < i
              /\ (sgOrigins[i] = "local" /\ sgOrigins[j] = "ai") => j < i

\* the online search was invoked with one suggestion short, and the returned
\* list holds a generated or template suggestion followed by a remote one
C11_Witness ==
    /\ sgPc = "done"
    /\ sgOnlineAt = 1
    /\ Len(sgRet) = 2
    /\ sgOrigins[1] \in {"ai", "local"}
    /\ sgOrigins[2] = "remote"
    /\ sgRet[2] # sgRet[1]

\* C12: when the AI stage contributes nothing (no generator, generator not
\* available, generate_multiple raising, or every generate call failing) the
\* request completes with the template candidates: the distinct non-empty
\* suggestions derived from the first 2 * num_suggestions local results, in
\* result order, up to num_suggestions of them.
C12_DegradesToTemplates ==
    (/\ sgPc = "done"
     /\ sgCaught # "outer"
     /\ \A i \in 1..Len(sgOrigins) : sgOrigins[i] # "ai")
    => LET window == Take(sgLocal, 2 * sgCount)
           first(x) == CHOOSE i \in 1..Len(window) :
                          /\ window[i].derived = x
                          /\ \A j \in 1..(i - 1) : window[j].derived # x
           nl == Cardinality({k \in 1..Len(sgRet) : sgOrigins[k] = "local"})
       IN  /\ sgError = "none"
           /\ \A k \in 1..nl :
                 /\ sgOrigins[k] = "local"
                 /\ \E i \in 1..Len(window) : window[i].derived = sgRet[k]
           /\ \A k1, k2 \in 1..nl : k1 < k2 => first(sgRet[k1]) < first(sgRet[k2])
           /\ \A i \in 1..Len(window) :
                 window[i].derived # "" =>
                    \/ \E k \in 1..nl : sgRet[k] = window[i].derived
                    \/ /\ nl = sgCount
                       /\ \A k \in 1..nl : first(sgRet[k]) < i

\* generate_multiple raised, and the request returned two template candidates
C12_Witness ==
    /\ sgPc = "done"
    /\ sgCaught = "inner"
    /\ sgCount = 2
    /\ Len(sgRet) = 2
    /\ sgOrigins = <<"local", "local">>
    /\ sgRet[1] = sgLocal[1].derived
    /\ sgRet[2] = sgLocal[2].derived

\* C13: when LocalSearch.search reaches the vector store, it returns exactly
\* the store's results whose score is at or above the similarity threshold,
\* in the order the store returned them: no returned entry scores below the
\* threshold, and every result scoring exactly the threshold (0.30) or above
\* it (0.31) is kept while one scoring 0.29 is dropped.
C13_ThresholdFilter ==
    (lsPc = "returned" /\ lsSearched) =>
        LET kept == SelectSeq(lsHits, LAMBDA h : h.score >= SimilarityThreshold)
        IN  /\ Len(lsRet) = Len(kept)
            /\ \A i \in 1..Len(kept) :
                   /\ lsRet[i].text = kept[i].doc
                   /\ lsRet[i].similarity_score = kept[i].score
                   /\ lsRet[i].source = "local"
            /\ \A i \in 1..Len(lsRet) : lsRet[i].similarity_score # 29
            /\ Cardinality({i \in 1..Len(lsHits) : lsHits[i].score \in {30, 31}})
                  = Len(lsRet)

\* a call whose store results score 0.31, 0.30 and 0.29 returned the first two
C13_Witness ==
    /\ lsPc = "returned"
    /\ lsSearched
    /\ Len(lsHits) = 3
    /\ lsHits[1].score = 31 /\ lsHits[2].score = 30 /\ lsHits[3].score = 29
    /\ Len(lsRet) = 2
    /\ lsRet[1].similarity_score = 31 /\ lsRet[2].similarity_score = 30

\* the index holds exactly the ids 0..n-1, n the number of documents
IdsMatchDocuments(st) ==
    /\ Len(st.index.entries) = Len(st.documents)
    /\ \A i \in 1..Len(st.index.entries) : st.index.entries[i].id = i - 1

C15_IdsAreDocumentPositions ==
    /\ IdsMatchDocuments(Store)
    /\ \A i \in 1..Len(index.entries) :
           /\ index.entries[i].id + 1 \in 1..Len(documents)
           /\ documents[index.entries[i].id + 1] = index.entries[i].chunk
    /\ \A i, j \in 1..Len(index.entries) :
           index.entries[i].id = index.entries[j].id => i = j

\* C16: a load() into a new VectorStore, after a save() of a store that
\* returned normally, returns True and yields the saved store's document
\* count and, for every top_k, the saved store's ordered search result.
C16_SaveLoadRoundTrip ==
    (vsLast.op = "load" /\ vsLast.fresh /\ vsSaved.valid) =>
        /\ vsLast.ok
        /\ Len(documents) = Len(vsSaved.store.documents)
        /\ \A top_k \in TopKs :
               SearchWithScores(Store, top_k)
                 = SearchWithScores(vsSaved.store, top_k)

\* two batches were added and saved, and a new instance loaded them
C16_Witness ==
    /\ vsLast.op = "load"
    /\ vsLast.fresh
    /\ vsLast.ok
    /\ vsSaved.valid
    /\ Len(vsSaved.store.documents) = 3
    /\ documents = vsSaved.store.documents
    /\ Len(SearchWithScores(Store, TopK)) = 3

\* C17: at the moment index_documents returns True, the store holds exactly
\* the chunks of that rebuild under the ids 0.., nothing of an earlier
\* generation, and the persisted index and documents files hold the same.
C17_RebuildReplacesGeneration ==
    [][\A t \in Threads :
          (thPc[t] # "ok" /\ thPc'[t] = "ok") =>
              /\ index' = FullStore(thChunks'[t]).index
              /\ documents' = thChunks'[t]
              /\ diskIndex' = File(IndexEntries(0, thChunks'[t]))
              /\ diskDocs' = File(thChunks'[t])]_vars

\* C18: when clear_cache() has returned, the in-memory cache is empty and
\* the cache file does not exist; and the first search after it for a query
\* that was a key of the cache before the clear fetches from the external
\* source.
C18_ClearCacheForgets ==
    /\ osCleared.done => (cache = EmptyCache /\ cacheFile.state = "absent")
    /\ \A q \in osCleared.keys :
           /\ osFirst[q] \in {"none", "empty", "results"}
           /\ osCalls[q] >= 1 => osFetches[q] >= 1

\* "alpha" was cached and persisted, the cache was cleared, and the next
\* search for "alpha" fetched
C18_Witness ==
    /\ "alpha" \in osCleared.keys
    /\ osCalls["alpha"] = 1
    /\ osFetches["alpha"] = 1
    /\ osFirst["alpha"] = "results"
    /\ osPc = "ready"
    /\ cacheFile.state = "ok"

C20_CacheHitChangesNothing ==
    [][\A q \in CacheQueries :
          (cache[q].cached /\ osCalls'[q] = osCalls[q] + 1) =>
              /\ osFetches' = osFetches
              /\ osRet' = cache[q].results
              /\ cache' = cache
              /\ cacheFile' = cacheFile
              /\ osPc' = "ready"]_vars

\* the second search for "alpha" returned the page the first one fetched
C20_Witness ==
    /\ osLast.query = "alpha"
    /\ osLast.what = "hit"
    /\ osCalls["alpha"] = 2
    /\ osFetches["alpha"] = 1
    /\ cache["alpha"].cached
    /\ osRet = <<1>>
    /\ cache["alpha"].results = <<1>>

\* C21: a remote lookup never raises and returns at most max_results
\* entries; when the title search answered, the result holds exactly one
\* entry for every one of the first max_results titles whose page, or whose
\* first disambiguation option's page, was fetched, in title order: titles
\* that are not found, fail to fetch or fail in the retry are skipped.
C21_FailedTitlesAreSkipped ==
    wkPc = "returned" =>
        LET considered == 1..Min(Len(wkTitles), wkMax)
            succeeded == {t \in considered : wkTitles[t] \in {"ok", "ambiguous_ok"}}
            ret == wkRet.results
        IN  /\ ~wkRet.raised
            /\ Len(ret) <= wkMax
            /\ wkSearched =>
                  /\ Len(ret) = Cardinality(succeeded)
                  /\ \A t \in succeeded : \E i \in 1..Len(ret) :
                         /\ ret[i].title = t
                         /\ ret[i].option = (wkTitles[t] = "ambiguous_ok")
                  /\ \A i, j \in 1..Len(ret) : i < j => ret[i].title < ret[j].title

\* the first title raised a fetch error, the second was ambiguous and its
\* retry failed, the third was fetched: the result is the third title's entry
C21_Witness ==
    /\ wkPc = "returned"
    /\ wkSearched
    /\ wkMax = 3
    /\ wkTitles = <<"error", "ambiguous_fail", "ok">>
    /\ wkRet.results = <<[title |-> 3, option |-> FALSE]>>

\* the steps of index_documents after the loop over the documents
LaterSteps == {"embed", "clear", "create", "add", "extend", "save_index", "save_docs"}

\* the documents of thread t's folder whose extraction succeeded
Extracted(t) == {d \in 1..Len(thOutcomes[t]) : thOutcomes[t][d] = "ok"}

\* every document whose extraction succeeded has its chunk in all_chunks, in
\* folder order, and no other document has
AllExtractedContribute(t) ==
    /\ Len(thChunks[t]) = Cardinality(Extracted(t))
    /\ \A d \in Extracted(t) :
           \E i \in 1..Len(thChunks[t]) : thChunks[t][i] = Chunk(thGen[t], d)
    /\ \A i, j \in 1..Len(thChunks[t]) :
           i < j => thChunks[t][i].doc < thChunks[t][j].doc

\* C22, as stated: a document whose extraction yields nothing or raises is
\* skipped and every other document contributes its chunks; and whenever at
\* least one chunk was produced, index_documents returns True.
C22_BuildSucceedsWithOneChunk ==
    \A t \in Threads :
        thPc[t] \notin {"idle", "extract"} =>
            /\ AllExtractedContribute(t)
            /\ (thPc[t] \in {"ok", "failed"} /\ thChunks[t] # <<>>) => thPc[t] = "ok"

\* C22, amended: a document whose extraction yields nothing or raises is
\* skipped and every other document contributes its chunks; the loop over
\* the documents ends index_documents with False only when it produced no
\* chunk at all and otherwise goes on to the embedding; after that,
\* index_documents returns False only from a later step that raises.
C22_FailedDocumentsAreSkipped ==
    /\ [](\A t \in Threads :
             thPc[t] \notin {"idle", "extract"} => AllExtractedContribute(t))
    /\ [][\A t \in Threads :
             /\ (thPc[t] = "extract" /\ thPc'[t] # "extract") =>
                    thPc'[t] = (IF Extracted(t)' = {} THEN "failed" ELSE "embed")
             /\ (thPc[t] # "failed" /\ thPc'[t] = "failed") =>
                    thPc[t] \in LaterSteps \cup {"extract"}]_vars

\* of two documents the first raised and the second was extracted: the build
\* went on with the second document's chunk and succeeded
C22_Witness ==
    \E t \in Threads :
        /\ thPc[t] = "ok"
        /\ thOutcomes[t] = <<"raise", "ok">>
        /\ thChunks[t] = <<Chunk(thGen[t], 2)>>
        /\ documents = thChunks[t]

\* C23: initialize does not return True when the embedder's dimension
\* differs from the index's, and no add or search is served while the two
\* dimensions differ.
C23_MismatchFailsStartup ==
    /\ auInit = "ok" => emDim = idxDim
    /\ auServed # "none" => emDim = idxDim

\* C24: a suggestion request that has entered the try block of get_suggestions
\* always eventually returns, even when the external source never answers
C24_RequestAlwaysReturns == (sgPc = "search") ~> (sgPc = "done")

\* the position just after the last occurrence of any delimiter in text, 1
\* when none occurs
AfterLastDelimiter(text) ==
    LET ends == UNION {{k + Len(Delimiters[i]) : k \in Occurrences(Delimiters[i], text)} :
                          i \in 1..Len(Delimiters)}
    IN  IF ends = {} THEN 1 ELSE CHOOSE e \in ends : \A f \in ends : f <= e

\* C25: the query is the text of the stripped window after the last occurrence
\* of any of the four delimiters, and the whole stripped window when none occurs
C25_QueryFollowsLastDelimiter ==
    xqPc = "done" =>
        LET window == StripText(LastChars(xqContext, xqWindow))
        IN  xqQuery = StripText(SubSeq(window, AfterLastDelimiter(window), Len(window)))

\* the characters of text that are not whitespace, in order
Content(text) == SelectSeq(text, LAMBDA c : c \notin Whitespace)

\* the chunks from the k-th on, each without the characters it repeats,
\* one after another
RECURSIVE Reassembled(_, _)
Reassembled(chunks, k) ==
    IF k > Len(chunks) THEN <<>>
    ELSE SubSeq(chunks[k].raw, chunks[k].repeated + 1, Len(chunks[k].raw))
            \o Reassembled(chunks, k + 1)

\* C26: the chunks in chunk_index order, each without its overlap prefix,
\* give the content of the text: nothing lost, nothing out of order
C26_ChunksReconstructText ==
    ckPc = "done" =>
        /\ \A k \in 1..Len(ckChunks) : ckChunks[k].chunk_index = k - 1
        /\ Content(Reassembled(ckChunks, 1)) = Content(ckText)

\* C27: no chunk of the buffer path is longer than 1.5 x chunk_size
C27_BufferChunksBounded ==
    ckPc = "done" =>
        \A k \in 1..Len(ckChunks) :
            ~ckChunks[k].forced => 2 * Len(ckChunks[k].text) <= 3 * ckSize

\* C28: every chunk's char_count is the length of its text
C28_CharCountIsTextLength ==
    ckPc = "done" =>
        \A k \in 1..Len(ckChunks) : ckChunks[k].char_count = Len(ckChunks[k].text)

\* the results before the k-th all fit, and the k-th does not
FirstThatDoesNotFit(k) ==
    /\ k \in 1..Len(gcTexts)
    /\ TotalLength([i \in 1..k |-> [length |-> gcTexts[i]]], 1) > EffectiveMax(gcMax)
    /\ TotalLength([i \in 1..(k - 1) |-> [length |-> gcTexts[i]]], 1) <= EffectiveMax(gcMax)

\* what max_length leaves after the results before the k-th
RemainingBefore(k) ==
    EffectiveMax(gcMax) - TotalLength([i \in 1..(k - 1) |-> [length |-> gcTexts[i]]], 1)

\* C29: of the first result that does not fit, a fragment is included if and
\* only if at least 100 characters remain, and no later result is included
C29_FragmentIffHundredRemain ==
    gcPc # "input" =>
        \A k \in 1..Len(gcTexts) :
            FirstThatDoesNotFit(k) =>
                /\ (\E p \in 1..Len(gcParts) : gcParts[p].result = k)
                       <=> RemainingBefore(k) >= MeaningfulRemaining
                /\ \A p \in 1..Len(gcParts) : gcParts[p].result <= k

\* C30: the returned context, separators included, is at most max_length long
C30_ContextWithinMaxLength ==
    gcPc # "input" => gcLength <= EffectiveMax(gcMax)

\* C31: get_alternatives returns at most num_alternatives strings, pairwise
\* distinct, none of them equal to the selection up to case
C31_AlternativesDistinctFromSelection ==
    trPc # "input" =>
        /\ Len(trRet) <= trCount
        /\ NoDuplicates(trRet)
        /\ \A k \in 1..Len(trRet) : Lower(trRet[k]) # Lower(trSelected)

\* C32: a step of search or of the save it starts keeps every cached query
\* cached with the result list it has; only clear_cache and a restart of the
\* process take entries away
C32_CacheOnlyGrows ==
    [][((\E query \in CacheQueries : Search(query)) \/ SaveOpen \/ SaveDump)
          => \A q \in CacheQueries : cache[q].cached => cache'[q] = cache[q]]_vars

\* both queries are cached and the last search was answered from the cache
C32_Witness ==
    /\ cache["alpha"].cached
    /\ cache["beta"].cached
    /\ osLast.what = "hit"

\* C33: a load() that returns False leaves self.index and self.documents as
\* they were before the call
C33_FailedLoadChangesNothing ==
    [][(vsLast'.op = "load" /\ ~vsLast'.ok) => (index' = index /\ documents' = documents)]_vars

\* C34: after a crash inside save(), a load() that returns True has read two
\* files written by one and the same save() call
C34_LoadAfterCrashIsOneGeneration ==
    (vsLast.op = "load" /\ vsLast.ok /\ vsCrashed) => vsPaired

\* C36: a call of rank_results leaves the local and the remote list, and
\* every entry of them, as they were before the call
C36_RankingKeepsItsInputs ==
    [][(rkPc = "input" /\ rkPc' = "ranked") => (rkLocal' = rkLocal /\ rkRemote' = rkRemote)]_vars

\* C35: the parts get_best_context takes from the merged list of
\* rank_results are its first entries, in order, whole except possibly the
\* last; a part of a remote entry comes only after every local entry whole
C35_ContextIsPrefixOfRanked ==
    (rkPc = "ranked" /\ gcPc = "ranker") =>
        /\ Len(gcParts) <= Len(rkRanked)
        /\ \A p \in 1..Len(gcParts) :
              /\ gcParts[p].result = p
              /\ gcParts[p].length <= rkRanked[p].length
              /\ p < Len(gcParts) => gcParts[p].length = rkRanked[p].length
              /\ rkRanked[p].source # "local" =>
                    /\ p > Len(rkLocal)
                    /\ \A i \in 1..Len(rkLocal) :
                          /\ rkRanked[i] = rkLocal[i]
                          /\ gcParts[i].length = rkLocal[i].length

\* the local entry is included whole and the remote one after it is cut,
\* although the remote one has the higher score
C35_Witness ==
    /\ rkPc = "ranked"
    /\ gcPc = "ranker"
    /\ Len(rkLocal) = 1
    /\ Len(gcParts) = 2
    /\ gcParts[2].length < rkRanked[2].length
    /\ rkRanked[2].similarity_score > rkRanked[1].similarity_score

\* C37: the percentages one run reports never decrease and lie in 0..100,
\* and 100 is among them exactly when index_documents has returned True
C37_ProgressIsMonotone ==
    \A t \in Threads :
        /\ \A i, j \in 1..Len(thProgress[t]) : i < j => thProgress[t][i] <= thProgress[t][j]
        /\ \A i \in 1..Len(thProgress[t]) : thProgress[t][i] \in 0..100
        /\ InSeq(100, thProgress[t]) <=> thPc[t] = "ok"

\* a run over two documents has returned True, having reported both of them
C37_Witness ==
    \E t \in Threads :
        /\ thPc[t] = "ok"
        /\ thProgress[t] = <<10, 10, 20, 45, 70, 70, 85, 100>>

\* C38: every started run reaches the emission of finished, which is then
\* delivered; the Load Documents button is disabled while any run has
\* started and its notification is not yet delivered, and the delivery
\* enables it
C38_RunFinishesButtonDisabled ==
    /\ \A t \in Threads : (thPc[t] = "extract") ~> (thPc[t] \in {"ok", "failed"})
    /\ \A t \in Threads : (thPc[t] \in {"ok", "failed"}) ~> (thPc[t] = "idle")
    /\ [](\A t \in Threads : thPc[t] # "idle" => ~loadDocsBtn)
    /\ [][\A t \in Threads : (thPc[t] # "idle" /\ thPc'[t] = "idle") => loadDocsBtn']_vars

\* C39: text_changed_delayed is emitted only when the debounce time has passed
\* with no text change since the last change; every text change restarts the
\* timer, so a burst of changes produces no emission before its last change
\* and exactly one after it: at most one while no further change happens, and
\* one at last once the changes have stopped.
C39_OneEmissionAfterTheBurst ==
    /\ [](edQuiet >= EdDebounce)
    /\ [](edEmits <= 1 /\ (edTimer >= 0 <=> edEmits = 0))
    /\ [][((\E char \in Chars : EditorType(char)) \/ EditorDelete) => edTimer' = EdDebounce]_vars
    /\ <>[][~(\E char \in Chars : EditorType(char)) /\ ~EditorDelete]_vars
          => <>[](edTimer = -1 /\ edEmits # 0)

\* a burst has ended, the debounce time has passed and the one emission of
\* the burst has just requested suggestions
C39_Witness ==
    /\ edEmits = 1
    /\ edQuiet = EdDebounce
    /\ edSince = EdDebounce
    /\ edElapsed = 0
    /\ edLen > MinContext

\* C40: after any sequence of calls of the overlay's methods, a showing
\* overlay has a non-empty list without blank strings and an index inside it,
\* next_suggestion followed by previous_suggestion leaves the index where it
\* was, and a hidden overlay has an empty list and index 0.
C40_OverlayInvariants ==
    /\ soVisible =>
          /\ soSuggestions # <<>>
          /\ \A i \in 1..Len(soSuggestions) : ~BlankSuggestion(soSuggestions[i])
          /\ 0 <= soIndex /\ soIndex < Len(soSuggestions)
    /\ IndexAfterPrevious(soSuggestions, IndexAfterNext(soSuggestions, soIndex)) = soIndex
    /\ ~soVisible => (soSuggestions = <<>> /\ soIndex = 0)

\* a full list of suggestions is showing and previous_suggestion has just
\* wrapped from the first to the last, from where next_suggestion wraps back
C40_Witness ==
    /\ soVisible
    /\ Len(soSuggestions) = MaxShown
    /\ soIndex = MaxShown - 1
    /\ soLast.op = "previous"
    /\ IndexAfterNext(soSuggestions, soIndex) = 0

====
